---------------------------- MODULE Spec2Model ----------------------------
(***************************************************************************)
(* State-machine model of mastodon_telegram_bridge.bridge.Bridge: the      *)
(* Telegram -> Mastodon handler with its media-group job queue, the        *)
(* scheduled flush (_media_group_sender / _send_media_to_mastodon), and    *)
(* the Mastodon -> Telegram handler, with the filters and footers they     *)
(* call.                                                                   *)
(*                                                                         *)
(* Strings are sequences of tokens (a token is a word, a tag, a link or a  *)
(* single punctuation character), so that concatenation, joining and       *)
(* escaping are computed and not assumed.                                  *)
(***************************************************************************)
EXTENDS Integers, Sequences, FiniteSets, TLC

VARIABLES
    phase,      \* "new", "constructed", "running", "dry run", or the error of __init__
    probe,      \* the last application of one of the pure functions
    cfg,        \* the options the Bridge was constructed with
    jobContext, \* what the installed Job class does when .context is read
    faults,     \* how many more calls to Telegram or Mastodon may fail
    nUpdates,   \* Telegram updates received so far (the next message_id - 1)
    inbox,      \* history: the channel posts received, in order
    jobs,       \* context.job_queue: the scheduled run_once jobs
    tasks,      \* running _send_media_to_mastodon coroutines
    fired,      \* history: the runs of jobs by the scheduler
    appends,    \* history: <<first message id of the buffer, appended id>>
    fetched,    \* message ids whose file get_file/download was asked for
    uploaded,   \* message ids whose file mastodon.media_post accepted
    observed,   \* media ids mastodon.media has returned for
    statuses,   \* the statuses mastodon.status_post created
    sent,       \* the Telegram Bot API calls issued
    warnings,   \* the logger.warning records
    raised,     \* the exceptions an except clause of a handler caught
    escapes,    \* the exceptions that left a handler
    nStatuses,  \* Mastodon stream events received so far
    timeline,   \* history: the statuses received, in order
    streaming   \* the Mastodon stream thread is alive

vars == <<phase, probe, cfg, jobContext, faults, nUpdates, inbox, jobs, tasks, fired,
          appends, fetched, uploaded, observed, statuses, sent, warnings, raised, escapes,
          nStatuses, timeline, streaming>>

---------------------------------------------------------------------------
(* Bounds of the model *)

MaxEvents == 2
MaxFaults == 2
MaxGroupUpdates == 3
MaxGroupFaults == 1
MaxBurst == 5
MaxBurstFaults == 1
MaxTimeline == 1
MaxStreamFaults == 2
MaxText == 3
MaxStartup == 2
MaxReadyUpdates == 2
MaxReadyFaults == 5
MaxOverlapEvents == 3
MaxOverlapFaults == 1

(* Program constants *)

FlushDelay == 5
MaxMedia == 4
MaxRounds == 5

ChannelChatId == "channel"
OtherChatId == "elsewhere"
PmChatId == "admin"
NoGroup == "none"
None == "None"

---------------------------------------------------------------------------
(* Strings *)

RECURSIVE Join(_, _)
\* sep.join(lines)
Join(lines, sep) ==
    IF lines = <<>> THEN <<>>
    ELSE IF Len(lines) = 1 THEN Head(lines)
    ELSE Head(lines) \o <<sep>> \o Join(Tail(lines), sep)

\* Python's (tag in text), on tokens
Contains(text, tag) == \E i \in 1..Len(text) : text[i] = tag

\* Python's (needle in text) for a token sequence
Within(needle, text) ==
    \E i \in 0..(Len(text) - Len(needle)) :
        \A k \in 1..Len(needle) : text[i + k] = needle[k]

Backquote == "BACKQUOTE"
Backslash == "\\"
MetaChars == {"*", "_", "[", Backquote}

RECURSIVE replace(_, _, _)
\* Python's text.replace(old, new) for a single character old
replace(text, old, new) ==
    IF text = <<>> THEN <<>>
    ELSE (IF Head(text) = old THEN new ELSE <<Head(text)>>)
         \o replace(Tail(text), old, new)

\* a converter that escapes asterisks and underscores only
escapePlain(text) ==
    IF text = <<>> THEN <<>>
    ELSE replace(replace(text, "*", <<Backslash, "*">>), "_", <<Backslash, "_">>)

\* TelegramMarkdownConverter.escape: the empty text as it is, and otherwise
\* one replace after the other for * _ [ and the backquote
escape(text) ==
    IF text = <<>> THEN <<>>
    ELSE LET asterisks == replace(text, "*", <<Backslash, "*">>)
             underscores == replace(asterisks, "_", <<Backslash, "_">>)
             brackets == replace(underscores, "[", <<Backslash, "[">>)
         IN  replace(brackets, Backquote, <<Backslash, Backquote>>)

\* utils.markdownify on text without markup: the converter's escape
markdownify(text) == escape(text)

---------------------------------------------------------------------------
(* Options (types.py) *)

\* TelegramToMastodonOptions and MastodonToTelegramOptions with their defaults
DefaultOptions ==
    [telegram_to_mastodon |->
        [disable |-> FALSE, channel_chat_id |-> ChannelChatId, pm_chat_id |-> PmChatId,
         filter |-> [include |-> {}, exclude |-> {"#nofwd", "#noforward", "#mastodon"}],
         footer |-> [add_link |-> FALSE, show_forward_from |-> TRUE]],
     mastodon_to_telegram |->
        [disable |-> FALSE, channel_chat_id |-> ChannelChatId, pm_chat_id |-> PmChatId,
         forward_reblog_link_only |-> TRUE,
         filter |-> [scope |-> {"public", "unlisted"}],
         footer |-> [add_link |-> TRUE, tags |-> <<"#mastodon">>]]]

\* a second configuration: every footer and reblog toggle the other way
LinkOptions ==
    [telegram_to_mastodon |->
        [disable |-> FALSE, channel_chat_id |-> ChannelChatId, pm_chat_id |-> PmChatId,
         filter |-> [include |-> {}, exclude |-> {"#nofwd", "#noforward", "#mastodon"}],
         footer |-> [add_link |-> TRUE, show_forward_from |-> FALSE]],
     mastodon_to_telegram |->
        [disable |-> FALSE, channel_chat_id |-> ChannelChatId, pm_chat_id |-> PmChatId,
         forward_reblog_link_only |-> FALSE,
         filter |-> [scope |-> {"public"}],
         footer |-> [add_link |-> FALSE, tags |-> <<>>]]]

\* the bridge's own account and application (Bridge.__init__)
MastodonUsername == "bridge"
MastodonAppName == "tg-bridge"

---------------------------------------------------------------------------
(* Filters (filter.py) *)

\* a tag filter where an included tag overrules the excluded ones
MastodonFilterIncludeFirst(f, text) ==
    IF f.include # {}
    THEN \E tag \in f.include : Contains(text, tag)
    ELSE ~\E tag \in f.exclude : Contains(text, tag)

\* MastodonFilter.__call__
MastodonFilter(f, text) ==
    LET excluded == \E tag \in f.exclude : Contains(text, tag)
    IN  IF f.include # {}
        THEN (\E tag \in f.include : Contains(text, tag)) /\ ~excluded
        ELSE ~excluded

\* the characters of the tags the filters are built from
Chars ==
    ("#mastodon" :> <<"#", "m", "a", "s", "t", "o", "d", "o", "n">>)
    @@ ("#nofwd" :> <<"#", "n", "o", "f", "w", "d">>)
    @@ ("#noforward" :> <<"#", "n", "o", "f", "o", "r", "w", "a", "r", "d">>)
    @@ ("#news" :> <<"#", "n", "e", "w", "s">>)
    @@ ("news" :> <<"n", "e", "w", "s">>)
    @@ ("" :> <<>>)

\* tag.startswith(prefix) for a prefix of one character
startswith(tag, prefix) == Len(Chars[tag]) > 0 /\ Chars[tag][1] = prefix

Constructed == "ok"

\* a validation that does not compare the two sets
CheckTagsApart(include, exclude) ==
    IF \E tag \in include : ~startswith(tag, "#")
    THEN "ValueError: include tags must start with #"
    ELSE IF \E tag \in exclude : ~startswith(tag, "#")
    THEN "ValueError: exclude tags must start with #"
    ELSE Constructed

\* MastodonFilter.__init__ with __check_tags, for iterables of strings: the
\* error raised, or Constructed
CheckTags(include, exclude) ==
    IF \E tag \in include : tag \in exclude
    THEN "ValueError: include and exclude tags overlap"
    ELSE IF \E tag \in include : ~startswith(tag, "#")
    THEN "ValueError: include tags must start with #"
    ELSE IF \E tag \in exclude : ~startswith(tag, "#")
    THEN "ValueError: exclude tags must start with #"
    ELSE Constructed

\* TelegramFilter.__init__ with __check_scope: the error raised, or Constructed
CheckScope(scope) ==
    IF scope # {} /\ \E v \in scope : v \notin {"public", "unlisted", "private", "direct"}
    THEN "ValueError: scope must be one of public, unlisted, private or direct"
    ELSE Constructed

\* a scope filter that lets replies through
TelegramFilterAnyReply(f, status) == status.visibility \in f.scope

\* TelegramFilter.__call__
TelegramFilter(f, status) ==
    status.in_reply_to_id = None /\ status.visibility \in f.scope

---------------------------------------------------------------------------
(* Footers (footer.py) *)

\* An optional object is a sequence of length 0 (None) or 1; an optional
\* string is None or a token; an optional text is <<>> or a token sequence.

\* MastodonFooter.__get_forward_name
GetForwardName(message) ==
    IF message.forward_from # None THEN message.forward_from
    ELSE IF message.forward_from_chat # <<>> THEN message.forward_from_chat[1].title
    ELSE IF message.forward_sender_name # None THEN message.forward_sender_name
    ELSE None

\* MastodonFooter.__get_forward_link
GetForwardLink(message) ==
    IF message.forward_from_chat # <<>> /\ message.forward_from_chat[1].link # None
    THEN <<message.forward_from_chat[1].link, "/", message.forward_from_message_id>>
    ELSE <<>>

\* a footer with the link of the message before the provenance
MastodonMakeFooterLinkFirst(f, message) ==
    (IF f.add_link /\ message.link # <<>> THEN <<message.link>> ELSE <<>>)
    \o (IF f.show_forward_from
        THEN (IF GetForwardName(message) # None
              THEN << <<"Forwarded from ", GetForwardName(message)>> >> ELSE <<>>)
             \o (IF GetForwardLink(message) # <<>>
                 THEN <<GetForwardLink(message)>> ELSE <<>>)
        ELSE <<>>)

\* MastodonFooter.make_footer: the footer lines of a Telegram message
MastodonMakeFooter(f, message) ==
    (IF f.show_forward_from
     THEN (IF GetForwardName(message) # None
           THEN << <<"Forwarded from ", GetForwardName(message)>> >> ELSE <<>>)
          \o (IF GetForwardLink(message) # <<>>
              THEN <<GetForwardLink(message)>> ELSE <<>>)
     ELSE <<>>)
    \o (IF f.add_link /\ message.link # <<>> THEN <<message.link>> ELSE <<>>)

\* a footer with a line for each tag
TelegramMakeFooterTagLines(f, status) ==
    (IF f.add_link THEN <<status.url>> ELSE <<>>)
    \o [i \in 1..Len(f.tags) |-> <<f.tags[i]>>]

\* TelegramFooter.make_footer: the footer lines of a Mastodon status
TelegramMakeFooter(f, status) ==
    (IF f.add_link THEN <<status.url>> ELSE <<>>)
    \o (IF f.tags # <<>>
        THEN <<Join([i \in 1..Len(f.tags) |-> <<f.tags[i]>>], " ")>> ELSE <<>>)

\* Footer.__call__ of the MastodonFooter the bridge holds
mastodon_footer(message) ==
    Join(MastodonMakeFooter(cfg.telegram_to_mastodon.footer, message), "\n")

\* Footer.__call__ of the TelegramFooter the bridge holds
telegram_footer(status) ==
    Join(TelegramMakeFooter(cfg.mastodon_to_telegram.footer, status), "\n")

\* a footer set off by one newline
WithFooterOneNewline(text, footer) == text \o <<"\n">> \o footer

\* text += f'\n\n{footer}', in both Telegram -> Mastodon paths
WithFooter(text, footer) == text \o <<"\n", "\n">> \o footer

\* the bridge's mastodon_filter (MastodonFilter built from the options)
mastodon_filter(text) == MastodonFilter(cfg.telegram_to_mastodon.filter, text)

\* the bridge's telegram_filter (TelegramFilter built from the options)
telegram_filter(status) == TelegramFilter(cfg.mastodon_to_telegram.filter, status)

---------------------------------------------------------------------------
(* Telegram messages *)

Hello == <<"Hello">>
HelloTagged == <<"Hello", " ", "#mastodon">>

\* telegram.Message, from the fields the bridge reads.  fwd is the kind of
\* forward provenance the message carries.
Message(id, shape) ==
    [message_id |-> id,
     chat_id |-> shape.chat_id,
     type |-> shape.type,
     media_group_id |-> shape.media_group_id,
     text |-> IF shape.type = "text" THEN shape.body ELSE <<>>,
     caption |-> IF shape.type \in {"photo", "video"} THEN shape.body ELSE <<>>,
     is_automatic_forward |-> shape.is_automatic_forward,
     forward_from |-> IF shape.fwd = "user" THEN "alice" ELSE None,
     forward_from_chat |->
        IF shape.fwd = "chat"
        THEN <<[title |-> "news", link |-> "https://t.me/news"]>> ELSE <<>>,
     forward_sender_name |-> IF shape.fwd = "hidden" THEN "bob" ELSE None,
     forward_from_message_id |-> IF shape.fwd = "chat" THEN "7" ELSE None,
     link |-> <<"https://t.me/c/1/", ToString(id)>>]

Shape(chat, type, group, body, auto, fwd) ==
    [chat_id |-> chat, type |-> type, media_group_id |-> group, body |-> body,
     is_automatic_forward |-> auto, fwd |-> fwd]

\* a handler that takes whatever is not a photo or video for a text
TextUnlessMedia(message) ==
    IF message.type \in {"photo", "video"} THEN message.type ELSE "text"

\* telegram.helpers.effective_message_type
effective_message_type(message) == message.type

Ids(messages) == [i \in 1..Len(messages) |-> messages[i].message_id]

---------------------------------------------------------------------------
(* Calls the bridge issues *)

CodeFence == "CODEFENCE"

\* A call of the Telegram Bot API as the bridge issues it; ok tells whether it
\* returned or raised.  ref names the event whose handling issued it:
\* <<"telegram", message_id of the (first) message>> or <<"mastodon", n>> for
\* the n-th status of the stream; k numbers the calls of one event in order.
\* disable_web_page_preview is the keyword of that name, False by default.
Call(method, chat_id, reply_to, text, media, ok, ref) ==
    [method |-> method, chat_id |-> chat_id, reply_to |-> reply_to, text |-> text,
     media |-> media, disable_web_page_preview |-> FALSE, ok |-> ok, ref |-> ref,
     k |-> 0]

\* a logger.warning record
Warning(what, ref) == [what |-> what, ref |-> ref]

\* the records of a log that belong to one event
Of(log, ref) == {x \in log : x.ref = ref}

\* message.reply_text('This bot is only for specific channel or chat.')
Notice(message, ok) ==
    Call("reply_text", message.chat_id, message.message_id,
         <<"This bot is only for specific channel or chat.">>, <<>>, ok,
         <<"telegram", message.message_id>>)

\* the success message: a reply in place for an automatic forward, otherwise a
\* note in the admin chat
Ack(first, url, ok) ==
    LET success_message ==
            <<"*", "Successfully forward message to mastodon.", "*", "\n">> \o url
    IN  IF first.is_automatic_forward
        THEN Call("reply_markdown", first.chat_id, first.message_id, success_message,
                  <<>>, ok, <<"telegram", first.message_id>>)
        ELSE Call("send_message", cfg.telegram_to_mastodon.pm_chat_id, 0,
                  success_message, <<>>, ok, <<"telegram", first.message_id>>)

\* pm_chat_id of the direction whose handler catches the exception
PmChatOf(origin) ==
    IF origin = "mastodon" THEN cfg.mastodon_to_telegram.pm_chat_id
    ELSE cfg.telegram_to_mastodon.pm_chat_id

\* the except clauses: the formatted exception in a code block, to the admin chat
ErrorReport(origin, exc, ok, ref) ==
    Call("send_message", PmChatOf(origin), 0,
         <<CodeFence, "\n", exc, "\n", CodeFence>>, <<>>, ok, ref)

\* the status mastodon.status_post creates; url is the one Mastodon gives it.
\* name and waited tell which job posted it and how long that job had waited,
\* ref the message it was posted for, k numbers the statuses of that message.
NewStatus(text, media_ids, name, waited, ref) ==
    LET k == Cardinality(Of(statuses, ref)) + 1
    IN  [status |-> text, visibility |-> "public", media_ids |-> media_ids,
         url |-> <<"https://mastodon.example/@bridge/", ToString(ref[2]), "/",
                   ToString(k)>>,
         name |-> name, waited |-> waited, ref |-> ref, k |-> k]

\* What a run through a handler leaves behind: the statuses posted, the
\* Telegram calls issued, the exceptions caught, the exceptions that left the
\* handler, and the number of calls to Telegram or Mastodon that failed on
\* the way.
Quiet == [posts |-> {}, calls |-> <<>>, raised |-> {}, escapes |-> {}, cost |-> 0]

\* an except clause that logs the exception and sends nothing
Unreported(exc, origin, ref, cost) ==
    {[Quiet EXCEPT !.raised = {[origin |-> origin, ref |-> ref, exc |-> exc]},
                   !.cost = cost]}

\* an exception inside the try block: caught and reported to the admin chat;
\* the report is itself a call that may fail, and then nothing catches it.
\* cost is 1 when the exception came from a failed call, 0 otherwise.
Raised(exc, origin, ref, cost) ==
    {[posts |-> {},
      calls |-> <<ErrorReport(origin, exc, ok, ref)>>,
      raised |-> {[origin |-> origin, ref |-> ref, exc |-> exc]},
      escapes |-> IF ok THEN {} ELSE {[origin |-> origin, ref |-> ref]},
      cost |-> cost + (IF ok THEN 0 ELSE 1)] : ok \in BOOLEAN}

\* status_post without the success message
PostedSilently(first, text, media_ids, name, waited, origin) ==
    LET ref == <<"telegram", first.message_id>>
    IN  {[Quiet EXCEPT !.posts = {NewStatus(text, media_ids, name, waited, ref)}]}
        \cup Raised("MastodonAPIError", origin, ref, 1)

\* status_post, then the success message; the except clause if either raises
Posted(first, text, media_ids, name, waited, origin) ==
    LET ref == <<"telegram", first.message_id>>
        st == NewStatus(text, media_ids, name, waited, ref)
    IN  {[Quiet EXCEPT !.posts = {st}, !.calls = <<Ack(first, st.url, TRUE)>>]}
        \cup {[r EXCEPT !.posts = {st},
                        !.calls = <<Ack(first, st.url, FALSE)>> \o @] :
                r \in Raised("NetworkError", origin, ref, 1)}
        \cup Raised("MastodonAPIError", origin, ref, 1)

\* the outcome o happens, if that many calls may still fail; an exception that
\* leaves the Mastodon handler leaves asyncio.run and update_handler with it,
\* and ends the thread stream_user started
Emit(o) ==
    /\ o.cost <= faults
    /\ faults' = faults - o.cost
    /\ statuses' = statuses \cup o.posts
    /\ sent' = sent \cup {[o.calls[i] EXCEPT !.k = Cardinality(Of(sent, o.calls[i].ref)) + i] :
                            i \in 1..Len(o.calls)}
    /\ raised' = raised \cup o.raised
    /\ escapes' = escapes \cup o.escapes
    /\ streaming' = (streaming /\ \A e \in o.escapes : e.origin # "mastodon")

---------------------------------------------------------------------------
(* The job queue and _send_media_to_mastodon *)

\* context.job_queue.run_once(self._media_group_sender, 5,
\*     data=MediaGroup(message=[message], footer=footer), name=str(group id)).
\* left is the time until the job runs; waited counts the time since run_once.
RunOnce(message, footer) ==
    [name |-> message.media_group_id,
     data |-> [message |-> <<message>>, footer |-> footer],
     left |-> FlushDelay, waited |-> 0]

\* a lookup that forgets the name
GetAnyJobs(name) == jobs

\* context.job_queue.get_jobs_by_name(str(message.media_group_id))
GetJobsByName(name) == {j \in jobs : j.name = name}

\* What reading jobs[0].context gives.  run_once stored the MediaGroup as the
\* job's data, and the flush reads context.job.data; whether a Job also answers
\* to .context is decided by the installed python-telegram-bot, once for the
\* whole run: where it does, the MediaGroup comes back ("data"); where it does
\* not (20.x renamed Job.context to Job.data) the read raises AttributeError
\* ("raises").
JobContext == {"data", "raises"}

\* cast(MediaGroup, jobs[0].context).message.append(message)
AppendMessage(j, message) ==
    [j EXCEPT !.data.message = Append(@, message)]

\* a scheduler that keeps a run_once job after running it
JobsKept(j) == jobs

\* the job queue once the scheduler has run job j: a run_once job is dropped
JobsAfterRun(j) == jobs \ {j}

\* a post that takes its text from the last message of the buffer
SendMediaLastCaption(messages, footer, byJob, name, waited) ==
    [messages |-> messages, footer |-> footer,
     text |-> WithFooter(messages[Len(messages)].caption, footer),
     idx |-> 1, media_ids |-> <<>>, round |-> 0, ready |-> {}, wait_time |-> 1,
     slept |-> <<>>, byJob |-> byJob, name |-> name, waited |-> waited]

\* _send_media_to_mastodon up to its first await: the text and the two early
\* returns.  idx is the message the loop is at, round the number of readiness
\* rounds that left some media not ready, ready the indices at which the list
\* of that name is True, wait_time the variable of that name, slept the
\* sleeps begun so far.
SendMedia(messages, footer, byJob, name, waited) ==
    [messages |-> messages, footer |-> footer,
     text |-> WithFooter(messages[1].caption, footer),
     idx |-> 1, media_ids |-> <<>>, round |-> 0, ready |-> {}, wait_time |-> 1,
     slept |-> <<>>, byJob |-> byJob, name |-> name, waited |-> waited]

\* (cnt := len(messages) > 4): the test of the early return
TooMany(messages) == Len(messages) > MaxMedia

\* the coroutines running after _send_media_to_mastodon(*messages) is called
Started(messages, footer, byJob, name, waited) ==
    IF mastodon_filter(messages[1].caption) /\ ~TooMany(messages)
    THEN tasks \cup {SendMedia(messages, footer, byJob, name, waited)}
    ELSE tasks

\* the warning of the early return; cnt is the truth value of the comparison,
\* so %d prints 1 whatever the number of messages
StartWarnings(messages) ==
    IF mastodon_filter(messages[1].caption) /\ TooMany(messages)
    THEN {Warning("Too many medias: 1", <<"telegram", messages[1].message_id>>)}
    ELSE {}

\* the record of the scheduler running job j: the buffer (named by its first
\* message), the messages it held, the time since run_once, and k, the number
\* of this run of it
Run(j) ==
    LET first == j.data.message[1].message_id
    IN  [first |-> first, name |-> j.name, ids |-> Ids(j.data.message),
         waited |-> j.waited,
         k |-> Cardinality({f \in fired : f.first = first}) + 1]

Origin(t) == IF t.byJob THEN "job" ELSE "telegram"

\* an application that takes the next update whatever is running
InNoHandler(t) == FALSE

\* the coroutine t is awaited by the handler of a channel post, which the
\* application awaits before it takes the next update (an Application built
\* without concurrent_updates); the callback of a job is a task of its own
InHandler(t) == ~t.byJob

Ref(t) == <<"telegram", t.messages[1].message_id>>

---------------------------------------------------------------------------
(* Telegram -> Mastodon: Bridge._send_message_to_mastodon *)

\* a handler that takes posts of any chat
FromAnyChat(m) == TRUE

\* the chat id test of the handler
FromChannel(m) == m.chat_id = cfg.telegram_to_mastodon.channel_chat_id

\* the branch of a post of another chat: the reply is awaited outside the try
\* block
WrongChat(m) ==
    /\ warnings' = warnings \cup {Warning("Received message from wrong chat id",
                                            <<"telegram", m.message_id>>)}
    /\ \E o \in {[Quiet EXCEPT !.calls = <<Notice(m, TRUE)>>],
                 [Quiet EXCEPT !.calls = <<Notice(m, FALSE)>>,
                               !.escapes = {[origin |-> "telegram",
                                             ref |-> <<"telegram", m.message_id>>]},
                               !.cost = 1]} : Emit(o)
    /\ UNCHANGED <<jobs, tasks, fired, appends, fetched, uploaded, observed>>

\* a photo or video with a media_group_id: append to the job of that name, or
\* make the footer and schedule the job
Grouped(m) ==
    LET found == GetJobsByName(m.media_group_id)
        j == CHOOSE x \in found : TRUE
    IN  IF found # {}
        THEN IF jobContext = "data"
             THEN /\ jobs' = (jobs \ {j}) \cup {AppendMessage(j, m)}
                  /\ appends' =
                        appends \cup {<<j.data.message[1].message_id, m.message_id>>}
                  /\ Emit(Quiet)
                  /\ UNCHANGED <<tasks, fired, fetched, uploaded, observed, warnings>>
             ELSE /\ \E o \in Raised("AttributeError", "telegram", <<"telegram", m.message_id>>, 0) : Emit(o)
                  /\ UNCHANGED <<jobs, tasks, fired, appends, fetched, uploaded, observed,
                                 warnings>>
        ELSE /\ jobs' = jobs \cup {RunOnce(m, mastodon_footer(m))}
             /\ Emit(Quiet)
             /\ UNCHANGED <<tasks, fired, appends, fetched, uploaded, observed, warnings>>

\* a photo or video without media_group_id: the handler awaits
\* _send_media_to_mastodon(message)
SingleMedia(m) ==
    /\ tasks' = Started(<<m>>, mastodon_footer(m), FALSE, NoGroup, 0)
    /\ warnings' = warnings \cup StartWarnings(<<m>>)
    /\ Emit(Quiet)
    /\ UNCHANGED <<jobs, fired, appends, fetched, uploaded, observed>>

\* a text message
TextMessage(m) ==
    /\ IF ~mastodon_filter(m.text)
       THEN Emit(Quiet)
       ELSE \E o \in Posted(m, WithFooter(m.text, mastodon_footer(m)), <<>>,
                            NoGroup, 0, "telegram") : Emit(o)
    /\ UNCHANGED <<jobs, tasks, fired, appends, fetched, uploaded, observed, warnings>>

\* the handler of a channel post, from the update to its return or to the
\* first await of an ungrouped photo or video.  Updates are handled one at a
\* time: the next one waits for the handler of the last.
Receive(m) ==
    /\ phase = "running"
    /\ ~cfg.telegram_to_mastodon.disable
    /\ \A t \in tasks : ~InHandler(t)
    /\ nUpdates' = nUpdates + 1
    /\ IF ~FromChannel(m) THEN WrongChat(m)
       ELSE IF effective_message_type(m) \in {"photo", "video"}
       THEN (IF m.media_group_id # NoGroup THEN Grouped(m) ELSE SingleMedia(m))
       ELSE IF effective_message_type(m) = "text" THEN TextMessage(m)
       ELSE /\ Emit(Quiet)
            /\ UNCHANGED <<jobs, tasks, fired, appends, fetched, uploaded, observed, warnings>>
    /\ inbox' = Append(inbox, m)
    /\ UNCHANGED <<phase, probe, cfg, jobContext, nStatuses, timeline>>

\* time passes: no job is run late
Tick ==
    /\ jobs # {}
    /\ \A j \in jobs : j.left > 0
    /\ jobs' = {[j EXCEPT !.left = @ - 1, !.waited = @ + 1] : j \in jobs}
    /\ UNCHANGED <<phase, probe, cfg, jobContext, faults, nUpdates, inbox, tasks, fired,
                   appends, fetched, uploaded, observed, statuses, sent, warnings, raised,
                   escapes, nStatuses, timeline, streaming>>

\* the scheduler runs a job that is due: _media_group_sender up to the first
\* await of _send_media_to_mastodon(*context.job.data.message, footer=...)
Fire(j) ==
    /\ j.left = 0
    /\ jobs' = JobsAfterRun(j)
    /\ fired' = fired \cup {Run(j)}
    /\ tasks' = Started(j.data.message, j.data.footer, TRUE, j.name, j.waited)
    /\ warnings' = warnings \cup StartWarnings(j.data.message)
    /\ UNCHANGED <<phase, probe, cfg, jobContext, faults, nUpdates, inbox, appends,
                   fetched, uploaded, observed, statuses, sent, raised, escapes, nStatuses,
                   timeline, streaming>>

\* a wait that ends as soon as one media is ready
SomeReady(ready, media_ids) == ready # {} \/ media_ids = <<>>

\* all(ready): every index of media_ids is marked
AllReady(ready, media_ids) == ready = 1..Len(media_ids)

\* a wait that goes on unless every media is ready in one and the same round
PollRoundAllAtOnce(t, t2) ==
    \E now \in SUBSET (1..Len(t2.media_ids)) :
        LET missed == IF now = 1..Len(t2.media_ids) THEN 0 ELSE 1
        IN  /\ observed' = observed \cup {t2.media_ids[i] : i \in now}
            /\ \/ /\ now = 1..Len(t2.media_ids)
                  /\ \E o \in Posted(t2.messages[1], t2.text, t2.media_ids, t2.name,
                                     t2.waited, Origin(t2)) :
                        Emit([o EXCEPT !.cost = @ + missed])
                  /\ tasks' = tasks \ {t}
               \/ /\ now # 1..Len(t2.media_ids)
                  /\ Emit([Quiet EXCEPT !.cost = 1])
                  /\ tasks' = (tasks \ {t})
                                 \cup {[t2 EXCEPT !.round = @ + 1,
                                                  !.ready = @ \cup now,
                                                  !.slept = Append(@, t2.wait_time)]}
               \/ /\ t2.media_ids # <<>>
                  /\ now = {}
                  /\ \E o \in Raised("MastodonNetworkError", Origin(t2), Ref(t2), 1) : Emit(o)
                  /\ tasks' = tasks \ {t}

\* one round of _wait_for_media_ready for task t (now t2), and what follows it
\* without an await: mastodon.media returns for the media in now and raises
\* MastodonAPIError for the others, which leaves them as they were; the
\* status and its success message follow when every media has been ready in
\* this round or an earlier one, the sleep when one has not.  Any other
\* exception of mastodon.media leaves the function.
PollRound(t, t2) ==
    \E now \in SUBSET (1..Len(t2.media_ids)) :
        LET ready == t2.ready \cup now
            missed == IF now = 1..Len(t2.media_ids) THEN 0 ELSE 1
        IN  /\ observed' = observed \cup {t2.media_ids[i] : i \in now}
            /\ \/ /\ AllReady(ready, t2.media_ids)
                  /\ \E o \in Posted(t2.messages[1], t2.text, t2.media_ids, t2.name,
                                     t2.waited, Origin(t2)) :
                        Emit([o EXCEPT !.cost = @ + missed])
                  /\ tasks' = tasks \ {t}
               \/ /\ ~AllReady(ready, t2.media_ids)
                  /\ Emit([Quiet EXCEPT !.cost = 1])
                  /\ tasks' = (tasks \ {t})
                                 \cup {[t2 EXCEPT !.round = @ + 1,
                                                  !.ready = @ \cup now,
                                                  !.slept = Append(@, t2.wait_time)]}
               \/ /\ t2.media_ids # <<>>
                  /\ now = {}
                  /\ \E o \in Raised("MastodonNetworkError", Origin(t2), Ref(t2), 1) : Emit(o)
                  /\ tasks' = tasks \ {t}

\* the loop body for messages[idx]: get_file, download_to_drive, media_post;
\* after the last message the first readiness round follows without an await
Upload(t) ==
    LET message == t.messages[t.idx]
        t2 == [t EXCEPT !.idx = @ + 1,
                        !.media_ids = Append(@, message.message_id)]
    IN  /\ t.round = 0
        /\ t.idx <= Len(t.messages)
        /\ fetched' = fetched \cup {message.message_id}
        /\ \/ /\ \E o \in Raised("NetworkError", Origin(t), Ref(t), 1) : Emit(o)
              /\ tasks' = tasks \ {t}
              /\ UNCHANGED <<uploaded, observed>>
           \/ /\ uploaded' = uploaded \cup {message.message_id}
              /\ IF t.idx < Len(t.messages)
                 THEN /\ tasks' = (tasks \ {t}) \cup {t2}
                      /\ Emit(Quiet)
                      /\ UNCHANGED observed
                 ELSE PollRound(t, t2)
        /\ UNCHANGED <<phase, probe, cfg, jobContext, nUpdates, inbox, jobs, fired, appends,
                       warnings, nStatuses, timeline>>

\* asyncio.sleep(wait_time) is over and wait_time doubled: the next readiness
\* round, or the TimeoutError after the fifth
Poll(t) ==
    /\ t.round > 0
    /\ IF t.round < MaxRounds
       THEN PollRound(t, [t EXCEPT !.wait_time = @ * 2])
       ELSE /\ \E o \in Raised("TimeoutError", Origin(t), Ref(t), 0) : Emit(o)
            /\ tasks' = tasks \ {t}
            /\ UNCHANGED observed
    /\ UNCHANGED <<phase, probe, cfg, jobContext, nUpdates, inbox, jobs, fired, appends, fetched,
                   uploaded, warnings, nStatuses, timeline>>

---------------------------------------------------------------------------
(* Mastodon -> Telegram: Bridge._send_message_to_telegram *)

\* A status of the stream (AttribAccessDict), from the fields the bridge
\* reads.  application is the application's name, None for a null
\* application; reblog is <<>> or <<the reblogged status>>.
Status(username, application, visibility, in_reply_to_id, reblog, spoiler_text, content, media_attachments, url) ==
    [account |-> [username |-> username], application |-> application,
     visibility |-> visibility, in_reply_to_id |-> in_reply_to_id, reblog |-> reblog,
     spoiler_text |-> spoiler_text, content |-> content,
     media_attachments |-> media_attachments, url |-> url]

\* a test that does not look at the account
AcceptedAnyAccount(status) ==
    /\ (status.application = None \/ status.application # MastodonAppName)
    /\ telegram_filter(status)

\* a test that looks at the account only
AcceptedAnyApplication(status) ==
    /\ status.account.username = MastodonUsername
    /\ telegram_filter(status)

\* the first test of the handler: the bridge's own account, not the bridge's
\* own application, and the scope filter
Accepted(status) ==
    /\ status.account.username = MastodonUsername
    /\ (status.application = None \/ status.application # MastodonAppName)
    /\ telegram_filter(status)

\* a text that leaves the spoiler text out
FullTextNoSpoiler(status) ==
    markdownify(status.content) \o <<"\n">> \o markdownify(telegram_footer(status))

\* a text whose footer, when there is one, comes after a blank line
FullTextBlankLine(status) ==
    (IF status.spoiler_text # <<>>
     THEN <<"*">> \o status.spoiler_text \o <<"*", "\n", "\n">> \o markdownify(status.content)
     ELSE markdownify(status.content))
    \o (IF telegram_footer(status) = <<>> THEN <<>>
        ELSE <<"\n", "\n">> \o markdownify(telegram_footer(status)))

\* the text of a status sent in full: the body, the spoiler text in bold
\* before it, then a newline and the footer
FullText(status) ==
    (IF status.spoiler_text # <<>>
     THEN <<"*">> \o status.spoiler_text \o <<"*", "\n", "\n">> \o markdownify(status.content)
     ELSE markdownify(status.content))
    \o <<"\n">> \o markdownify(telegram_footer(status))

\* a loop that makes a photo of every attachment
MediasOfAnyType(items) ==
    [i \in 1..Len(items) |->
        [media |-> "InputMediaPhoto", url |-> items[i].url, caption |-> <<>>]]

RECURSIVE Medias(_)
\* the media group: an InputMediaPhoto per image, an InputMediaVideo per video,
\* in the order of the status; other attachments are left out
Medias(items) ==
    IF items = <<>> THEN <<>>
    ELSE (IF Head(items).type = "image"
          THEN <<[media |-> "InputMediaPhoto", url |-> Head(items).url, caption |-> <<>>]>>
          ELSE IF Head(items).type = "video"
          THEN <<[media |-> "InputMediaVideo", url |-> Head(items).url, caption |-> <<>>]>>
          ELSE <<>>)
         \o Medias(Tail(items))

\* a call to the channel that returns, or raises and is reported
Sending(call, n) ==
    {[Quiet EXCEPT !.calls = <<[call EXCEPT !.ok = TRUE]>>]}
    \cup {[r EXCEPT !.calls = <<[call EXCEPT !.ok = FALSE]>> \o @] :
            r \in Raised("NetworkError", "mastodon", <<"mastodon", n>>, 1)}

\* a handler that forwards the reblog itself
Unresolved(status) == status

\* status = status.reblog for a reblog that is forwarded in full
Resolved(status) == IF status.reblog # <<>> THEN status.reblog[1] ELSE status

\* a handler that sends the link of any original
LinkableAlways(original) == TRUE

\* the test of the link-only branch: status.reblog.visibility is 'public'
Linkable(original) == original.visibility = "public"

\* the outcomes of handling the n-th status of the stream
Forwarding(status, n) ==
    LET m2t == cfg.mastodon_to_telegram
        ref == <<"mastodon", n>>
        source == Resolved(status)
        medias == Medias(source.media_attachments)
    IN  IF ~Accepted(status) THEN {Quiet}
        ELSE IF status.reblog # <<>> /\ m2t.forward_reblog_link_only
        THEN IF ~Linkable(status.reblog[1])
             THEN {Quiet}
             ELSE Sending(Call("send_message", m2t.channel_chat_id, 0,
                               markdownify(telegram_footer(status.reblog[1])),
                               <<>>, TRUE, ref), n)
        ELSE IF Len(source.media_attachments) > 0
        THEN IF medias = <<>>
             THEN Raised("IndexError", "mastodon", ref, 0)
             ELSE Sending(Call("send_media_group", m2t.channel_chat_id, 0, <<>>,
                               [medias EXCEPT ![1].caption = FullText(source)],
                               TRUE, ref), n)
        ELSE Sending([Call("send_message", m2t.channel_chat_id, 0, FullText(source),
                           <<>>, TRUE, ref)
                         EXCEPT !.disable_web_page_preview = TRUE], n)

\* the warning of the link-only reblog of a status that is not public
ReblogWarnings(status, n) ==
    IF /\ Accepted(status)
       /\ status.reblog # <<>>
       /\ cfg.mastodon_to_telegram.forward_reblog_link_only
       /\ ~Linkable(status.reblog[1])
    THEN {Warning("Cannot forward reblog link to telegram because the original message is not public.",
                  <<"mastodon", n>>)}
    ELSE {}

\* update_handler: asyncio.run(self._send_message_to_telegram(status)), on the
\* stream's thread, one status at a time
OnStatus(status) ==
    /\ streaming
    /\ nStatuses' = nStatuses + 1
    /\ timeline' = Append(timeline, status)
    /\ \E o \in Forwarding(status, nStatuses + 1) : Emit(o)
    /\ warnings' = warnings \cup ReblogWarnings(status, nStatuses + 1)
    /\ UNCHANGED <<phase, probe, cfg, jobContext, nUpdates, inbox, jobs, tasks, fired,
                   appends, fetched, uploaded, observed>>

\* the stream's thread calls update_handler, which enters asyncio.run: the
\* handler up to its first await.  The thread takes the next status when
\* update_handler has returned.
StatusArrives(status) ==
    /\ streaming
    /\ Len(timeline) = nStatuses
    /\ timeline' = Append(timeline, status)
    /\ warnings' = warnings \cup ReblogWarnings(status, nStatuses + 1)
    /\ UNCHANGED <<phase, probe, cfg, jobContext, faults, nUpdates, inbox, jobs, tasks,
                   fired, appends, fetched, uploaded, observed, statuses, sent, raised, escapes,
                   nStatuses, streaming>>

\* the handler of the status the thread is at, from its first await to the
\* return of asyncio.run
StatusHandled ==
    /\ Len(timeline) > nStatuses
    /\ nStatuses' = nStatuses + 1
    /\ \E o \in Forwarding(timeline[nStatuses + 1], nStatuses + 1) : Emit(o)
    /\ UNCHANGED <<phase, probe, cfg, jobContext, nUpdates, inbox, jobs, tasks, fired,
                   appends, fetched, uploaded, observed, warnings, timeline>>

---------------------------------------------------------------------------
(* Specifications *)

\* no pure function applied yet
NoProbe == [op |-> "none", args |-> <<>>, out |-> <<>>]

\* nothing received, nothing scheduled, nothing sent
Blank(options, nFaults) ==
    /\ probe = NoProbe
    /\ cfg = options
    /\ jobContext \in JobContext
    /\ faults = nFaults
    /\ nUpdates = 0
    /\ inbox = <<>>
    /\ jobs = {}
    /\ tasks = {}
    /\ fired = {}
    /\ appends = {}
    /\ fetched = {}
    /\ uploaded = {}
    /\ observed = {}
    /\ statuses = {}
    /\ sent = {}
    /\ warnings = {}
    /\ raised = {}
    /\ escapes = {}
    /\ nStatuses = 0
    /\ timeline = <<>>

\* the state after Bridge(...).run() with both directions enabled
Start(options, nFaults) ==
    /\ phase = "running"
    /\ streaming = TRUE
    /\ Blank(options, nFaults)

\* a constructor without the test of the two disable flags
NeverBothDisabled(options) == FALSE

\* the test of Bridge.__init__ on the two disable flags
BothDisabled(options) ==
    options.telegram_to_mastodon.disable /\ options.mastodon_to_telegram.disable

\* Bridge.__init__ from the options on: the error raised, or "constructed"
BridgeInit(options) ==
    LET tags == CheckTags(options.telegram_to_mastodon.filter.include,
                          options.telegram_to_mastodon.filter.exclude)
        scope == CheckScope(options.mastodon_to_telegram.filter.scope)
    IN  IF BothDisabled(options)
        THEN "ValueError: Both telegram_to_mastodon and mastodon_to_telegram are disabled, nothing to do."
        ELSE IF tags # Constructed THEN tags
        ELSE IF scope # Constructed THEN scope
        ELSE "constructed"

\* Bridge(telegram, mastodon, options)
Construct ==
    /\ phase = "new"
    /\ phase' = BridgeInit(cfg)
    /\ UNCHANGED <<probe, cfg, jobContext, faults, nUpdates, inbox, jobs, tasks, fired,
                   appends, fetched, uploaded, observed, statuses, sent, warnings, raised,
                   escapes, nStatuses, timeline, streaming>>

\* a run that starts the stream whether or not the direction is disabled
BridgeRunStreaming(dry_run) ==
    /\ phase = "constructed"
    /\ phase' = IF dry_run THEN "dry run" ELSE "running"
    /\ streaming' = ~dry_run
    /\ UNCHANGED <<probe, cfg, jobContext, faults, nUpdates, inbox, jobs, tasks, fired,
                   appends, fetched, uploaded, observed, statuses, sent, warnings, raised,
                   escapes, nStatuses, timeline>>

\* Bridge.run(dry_run): a dry run returns at once; otherwise the stream is
\* started and the channel post handler added, each unless its direction is
\* disabled
BridgeRun(dry_run) ==
    /\ phase = "constructed"
    /\ phase' = IF dry_run THEN "dry run" ELSE "running"
    /\ streaming' = (~dry_run /\ ~cfg.mastodon_to_telegram.disable)
    /\ UNCHANGED <<probe, cfg, jobContext, faults, nUpdates, inbox, jobs, tasks, fired,
                   appends, fetched, uploaded, observed, statuses, sent, warnings, raised,
                   escapes, nStatuses, timeline>>

\* channel posts of two media groups, with and without an excluded tag
GroupShapes ==
    {Shape(ChannelChatId, "photo", g, body, FALSE, "none") :
        g \in {"G1", "G2"}, body \in {Hello}}
    \cup {Shape(ChannelChatId, "photo", "G1", HelloTagged, FALSE, "none")}

InitGroups == Start(LinkOptions, MaxGroupFaults)

NextGroups ==
    \/ /\ nUpdates < MaxGroupUpdates
       /\ \E shape \in GroupShapes : Receive(Message(nUpdates + 1, shape))
    \/ Tick
    \/ \E j \in jobs : Fire(j)
    \/ \E t \in tasks : Upload(t)
    \/ \E t \in tasks : Poll(t)

\* the Telegram side with media groups only
SpecGroups == InitGroups /\ [][NextGroups]_vars

InitBurst == Start(DefaultOptions, MaxBurstFaults)

NextBurst ==
    \/ /\ nUpdates < MaxBurst
       /\ Receive(Message(nUpdates + 1,
                          Shape(ChannelChatId, "photo", "G1", Hello, FALSE, "none")))
    \/ Tick
    \/ \E j \in jobs : Fire(j)
    \/ \E t \in tasks : Upload(t)
    \/ \E t \in tasks : Poll(t)

\* one media group of up to MaxBurst photos, every call succeeding
SpecBurst == InitBurst /\ [][NextBurst]_vars

\* photos of one media group
ReadyShapes == {Shape(ChannelChatId, "photo", "G1", Hello, FALSE, "none")}

InitReady == Start(LinkOptions, MaxReadyFaults)

NextReady ==
    \/ /\ nUpdates < MaxReadyUpdates
       /\ \E shape \in ReadyShapes : Receive(Message(nUpdates + 1, shape))
    \/ Tick
    \/ \E j \in jobs : Fire(j)
    \/ \E t \in tasks : Upload(t)
    \/ \E t \in tasks : Poll(t)

\* photos whose media may stay unready for all five rounds.  The event loop
\* runs every coroutine that can go on, every sleep ends, and the scheduler
\* runs a job that is due.
SpecReady ==
    /\ InitReady /\ [][NextReady]_vars
    /\ WF_vars(Tick)
    /\ WF_vars(\E j \in jobs : Fire(j))
    /\ WF_vars(\E t \in tasks : Upload(t))
    /\ WF_vars(\E t \in tasks : Poll(t))

\* a photo on its own and a photo of a media group
OverlapShapes ==
    {Shape(ChannelChatId, "photo", g, Hello, FALSE, "none") : g \in {NoGroup, "G1"}}

\* a status that is forwarded
OverlapStatuses ==
    {Status(MastodonUsername, "Web", "public", None, <<>>, <<>>, Hello, <<>>,
            <<"https://mastodon.example/@bridge/7">>)}

InitOverlap == Start(DefaultOptions, MaxOverlapFaults)

NextOverlap ==
    \/ /\ nUpdates + Len(timeline) < MaxOverlapEvents
       /\ \E shape \in OverlapShapes : Receive(Message(nUpdates + 1, shape))
    \/ Tick
    \/ \E j \in jobs : Fire(j)
    \/ \E t \in tasks : Upload(t)
    \/ \E t \in tasks : Poll(t)
    \/ /\ nUpdates + Len(timeline) < MaxOverlapEvents
       /\ \E status \in OverlapStatuses : StatusArrives(status)
    \/ StatusHandled

\* both directions, each handler in the steps its awaits cut it into
SpecOverlap == InitOverlap /\ [][NextOverlap]_vars

\* channel posts of every kind the handler tells apart, and a post of another
\* chat
UpdateShapes ==
    {Shape(OtherChatId, "photo", "G1", Hello, FALSE, "none"),
     Shape(ChannelChatId, "text", NoGroup, Hello, FALSE, "chat"),
     Shape(ChannelChatId, "text", NoGroup, HelloTagged, FALSE, "none"),
     Shape(ChannelChatId, "photo", NoGroup, Hello, TRUE, "none"),
     Shape(ChannelChatId, "video", NoGroup, <<>>, FALSE, "user"),
     Shape(ChannelChatId, "photo", "G1", Hello, FALSE, "hidden"),
     Shape(ChannelChatId, "photo", NoGroup, HelloTagged, FALSE, "none"),
     Shape(ChannelChatId, "video", "G1", HelloTagged, FALSE, "none"),
     Shape(ChannelChatId, "sticker", NoGroup, <<>>, FALSE, "none")}

Image == [type |-> "image", url |-> "https://files.example/1.png"]
Video == [type |-> "video", url |-> "https://files.example/2.mp4"]
Audio == [type |-> "audio", url |-> "https://files.example/3.mp3"]

StatusUrl == <<"https://mastodon.example/@some", "_", "one/1">>

\* the statuses a reblog may point to
Originals ==
    {Status("someone", "Web", "public", None, <<>>, <<"cw">>, <<"2", "*", "2">>,
            <<Video>>, StatusUrl),
     Status("someone", "Web", "private", "42", <<>>, <<"cw">>, <<"2", "*", "2">>,
            <<>>, StatusUrl),
     Status("someone", "Web", "private", "42", <<>>, <<>>, <<"2", "*", "2">>,
            <<Audio>>, StatusUrl)}

\* a few statuses for the specification of both directions
FewStatuses ==
    {Status(username, application, "public", None, <<>>, <<>>, <<"snake", "_", "case">>,
            media_attachments, <<"https://mastodon.example/@bridge/7">>) :
        username \in {MastodonUsername},
        application \in {MastodonAppName, "Web"},
        media_attachments \in {<<>>, <<Audio>>}}

\* statuses of the stream
StatusShapes ==
    {Status(username, application, visibility, in_reply_to_id, reblog, spoiler_text,
            <<"snake", "_", "case">>, media_attachments,
            <<"https://mastodon.example/@bridge", "_", "bot/7">>) :
        username \in {MastodonUsername, "someone"},
        application \in {None, MastodonAppName, "Web"},
        visibility \in {"public", "unlisted", "private"},
        in_reply_to_id \in {None, "42"},
        reblog \in {<<>>} \cup {<<o>> : o \in Originals},
        spoiler_text \in {<<>>},
        media_attachments \in {<<>>, <<Image, Audio, Video>>, <<Audio>>}}

InitMastodon ==
    \E options \in {DefaultOptions, LinkOptions} : Start(options, MaxStreamFaults)

NextMastodon ==
    /\ nStatuses < MaxTimeline
    /\ \E status \in StatusShapes : OnStatus(status)

\* the Mastodon side alone
SpecMastodon == InitMastodon /\ [][NextMastodon]_vars

Init == Start(DefaultOptions, MaxFaults)

Next ==
    \/ /\ nUpdates + nStatuses < MaxEvents
       /\ \E shape \in UpdateShapes : Receive(Message(nUpdates + 1, shape))
    \/ Tick
    \/ \E j \in jobs : Fire(j)
    \/ \E t \in tasks : Upload(t)
    \/ \E t \in tasks : Poll(t)
    \/ /\ nUpdates + nStatuses < MaxEvents
       /\ \E status \in FewStatuses : OnStatus(status)

\* both directions
Spec == Init /\ [][Next]_vars

\* options with either direction disabled or not, and with filters that do
\* and do not pass validation
StartupOptions ==
    {[DefaultOptions EXCEPT !.telegram_to_mastodon.disable = d1,
                            !.mastodon_to_telegram.disable = d2,
                            !.telegram_to_mastodon.filter = f,
                            !.mastodon_to_telegram.filter = [scope |-> scope]] :
        d1 \in BOOLEAN, d2 \in BOOLEAN,
        f \in {DefaultOptions.telegram_to_mastodon.filter,
                [include |-> {"#news"}, exclude |-> {"#news"}]},
        scope \in {{"public", "unlisted"}, {"followers"}}}

InitStartup ==
    /\ phase = "new"
    /\ streaming = FALSE
    /\ \E options \in StartupOptions : Blank(options, 0)

NextStartup ==
    \/ Construct
    \/ \E dry_run \in BOOLEAN : BridgeRun(dry_run)
    \/ /\ nUpdates + nStatuses < MaxStartup
       /\ \E body \in {Hello, HelloTagged} :
             Receive(Message(nUpdates + 1,
                             Shape(ChannelChatId, "text", NoGroup, body, FALSE, "none")))
    \/ /\ nUpdates + nStatuses < MaxStartup
       /\ \E status \in FewStatuses : OnStatus(status)

\* the bridge from its construction on
SpecStartup == InitStartup /\ [][NextStartup]_vars

---------------------------------------------------------------------------
(* The filters and the converter on their own *)

\* the visibilities Mastodon knows
Visibilities == {"public", "unlisted", "private", "direct"}

\* statuses of every visibility, replies and not
FilterStatuses ==
    {Status("someone", "Web", visibility, in_reply_to_id, <<>>, <<>>, Hello, <<>>, StatusUrl) :
        visibility \in Visibilities, in_reply_to_id \in {None, "42"}}

\* TelegramFilter(scope=scope)(status)
ApplyTelegramFilter ==
    \E scope \in SUBSET Visibilities : \E status \in FilterStatuses :
        /\ probe = NoProbe
        /\ probe' = [op |-> "TelegramFilter", args |-> <<scope, status>>,
                     out |-> TelegramFilter([scope |-> scope], status)]
        /\ UNCHANGED <<phase, cfg, jobContext, faults, nUpdates, inbox, jobs, tasks,
                       fired, appends, fetched, uploaded, observed, statuses, sent, warnings,
                       raised, escapes, nStatuses, timeline, streaming>>

\* the texts of at most n tokens over an alphabet
Texts(alphabet, n) == UNION {[1..k -> alphabet] : k \in 0..n}

\* the tags the filters are built from
FilterTags == {"#mastodon", "#nofwd", "#news"}

\* MastodonFilter(include=include, exclude=exclude)(text), for sets that
\* __check_tags lets through
ApplyMastodonFilter ==
    \E include \in SUBSET FilterTags : \E exclude \in SUBSET (FilterTags \ include) :
    \E text \in Texts({"Hello", "#mastodon", "#news"}, MaxText) :
        /\ probe = NoProbe
        /\ probe' = [op |-> "MastodonFilter", args |-> <<include, exclude, text>>,
                     out |-> MastodonFilter([include |-> include, exclude |-> exclude],
                                            text)]
        /\ UNCHANGED <<phase, cfg, jobContext, faults, nUpdates, inbox, jobs, tasks,
                       fired, appends, fetched, uploaded, observed, statuses, sent, warnings,
                       raised, escapes, nStatuses, timeline, streaming>>

\* tags with and without the leading #, the empty tag among them
AnyTags == {"#mastodon", "#news", "news", ""}

\* MastodonFilter(include=include, exclude=exclude)
ConstructMastodonFilter ==
    \E include \in SUBSET AnyTags : \E exclude \in SUBSET AnyTags :
        /\ probe = NoProbe
        /\ probe' = [op |-> "MastodonFilter.__init__", args |-> <<include, exclude>>,
                     out |-> CheckTags(include, exclude)]
        /\ UNCHANGED <<phase, cfg, jobContext, faults, nUpdates, inbox, jobs, tasks,
                       fired, appends, fetched, uploaded, observed, statuses, sent, warnings,
                       raised, escapes, nStatuses, timeline, streaming>>

\* TelegramFilter(scope=scope)
ConstructTelegramFilter ==
    \E scope \in SUBSET (Visibilities \cup {"followers"}) :
        /\ probe = NoProbe
        /\ probe' = [op |-> "TelegramFilter.__init__", args |-> <<scope>>,
                     out |-> CheckScope(scope)]
        /\ UNCHANGED <<phase, cfg, jobContext, faults, nUpdates, inbox, jobs, tasks,
                       fired, appends, fetched, uploaded, observed, statuses, sent, warnings,
                       raised, escapes, nStatuses, timeline, streaming>>

\* the characters of the texts given to escape
EscapeAlphabet == {"a", "*", "_", "[", Backquote, Backslash}

\* TelegramMarkdownConverter().escape(text)
ApplyEscape ==
    \E text \in Texts(EscapeAlphabet, MaxText) :
        /\ probe = NoProbe
        /\ probe' = [op |-> "escape", args |-> <<text>>, out |-> escape(text)]
        /\ UNCHANGED <<phase, cfg, jobContext, faults, nUpdates, inbox, jobs, tasks,
                       fired, appends, fetched, uploaded, observed, statuses, sent, warnings,
                       raised, escapes, nStatuses, timeline, streaming>>

\* Telegram messages with every combination of forward provenance, an origin
\* chat with and without a link, and a link of their own or none
FooterMessages ==
    {[Message(1, Shape(ChannelChatId, "text", NoGroup, Hello, FALSE, "none"))
        EXCEPT !.forward_from = from,
               !.forward_from_chat = chat,
               !.forward_sender_name = sender,
               !.forward_from_message_id = IF chat = <<>> THEN None ELSE "7",
               !.link = link] :
        from \in {None, "alice"},
        chat \in {<<>>, <<[title |-> "news", link |-> "https://t.me/news"]>>,
                  <<[title |-> "club", link |-> None]>>},
        sender \in {None, "bob"},
        link \in {<<>>, <<"https://t.me/c/1/", "1">>}}

\* MastodonFooter(add_link=..., show_forward_from=...).make_footer(message)
ApplyMastodonFooter ==
    \E add_link \in BOOLEAN : \E show_forward_from \in BOOLEAN :
    \E message \in FooterMessages :
        /\ probe = NoProbe
        /\ probe' = [op |-> "MastodonFooter.make_footer",
                     args |-> <<add_link, show_forward_from, message>>,
                     out |-> MastodonMakeFooter([add_link |-> add_link,
                                                 show_forward_from |-> show_forward_from],
                                                message)]
        /\ UNCHANGED <<phase, cfg, jobContext, faults, nUpdates, inbox, jobs, tasks,
                       fired, appends, fetched, uploaded, observed, statuses, sent, warnings,
                       raised, escapes, nStatuses, timeline, streaming>>

\* the tag lists a footer is built with
FooterTags == {<<>>, <<"#mastodon">>, <<"#mastodon", "#news">>}

\* TelegramFooter(add_link=..., tags=...).make_footer(status)
ApplyTelegramFooter ==
    \E add_link \in BOOLEAN : \E tags \in FooterTags : \E status \in FilterStatuses :
        /\ probe = NoProbe
        /\ probe' = [op |-> "TelegramFooter.make_footer",
                     args |-> <<add_link, tags, status>>,
                     out |-> TelegramMakeFooter([add_link |-> add_link, tags |-> tags],
                                                status)]
        /\ UNCHANGED <<phase, cfg, jobContext, faults, nUpdates, inbox, jobs, tasks,
                       fired, appends, fetched, uploaded, observed, statuses, sent, warnings,
                       raised, escapes, nStatuses, timeline, streaming>>

InitFunctions == Start(DefaultOptions, 0)

NextFunctions ==
    \/ ApplyEscape
    \/ ApplyMastodonFooter
    \/ ApplyTelegramFooter
    \/ ApplyTelegramFilter
    \/ ApplyMastodonFilter
    \/ ConstructMastodonFilter
    \/ ConstructTelegramFilter

\* the pure functions applied to inputs of bounded size
SpecFunctions == InitFunctions /\ [][NextFunctions]_vars

\* C11: the scope filter accepts a status if and only if its visibility is in
\* the configured scope and it is not a reply, for every scope that is a
\* subset of the four visibilities, the empty one included.
C11_ScopeFilter ==
    probe.op = "TelegramFilter" =>
        LET scope == probe.args[1]
            status == probe.args[2]
        IN  /\ probe.out \in BOOLEAN
            /\ probe.out => (status.visibility \in scope /\ status.in_reply_to_id = None)
            /\ (status.visibility \in scope /\ status.in_reply_to_id = None) => probe.out

\* C11's case: a status that is no reply is accepted under a scope holding
\* its visibility
C11_Witness ==
    /\ probe.op = "TelegramFilter"
    /\ probe.args[1] = {"private", "direct"}
    /\ probe.args[2].visibility = "direct"
    /\ probe.args[2].in_reply_to_id = None
    /\ probe.out = TRUE

\* C12: the tag filter with disjoint include and exclude sets accepts a text
\* if and only if no excluded tag occurs in it and, when the include set is
\* not empty, some included tag occurs in it.
C12_TagFilter ==
    probe.op = "MastodonFilter" =>
        LET include == probe.args[1]
            exclude == probe.args[2]
            text == probe.args[3]
            occurs(tag) == \E i \in DOMAIN text : text[i] = tag
        IN  probe.out = ( /\ \A tag \in exclude : ~occurs(tag)
                          /\ include # {} => \E tag \in include : occurs(tag) )

\* C12's case: a text holding an included and an excluded tag is rejected
C12_Witness ==
    /\ probe.op = "MastodonFilter"
    /\ probe.args[1] = {"#news"}
    /\ probe.args[2] = {"#mastodon"}
    /\ probe.args[3] = <<"#news", "Hello", "#mastodon">>
    /\ probe.out = FALSE

\* the first character of a tag is #
Hashed(tag) == tag \in {"#mastodon", "#nofwd", "#noforward", "#news"}

\* C13: constructing a filter fails with an error exactly when its criteria
\* are defective: for the tag filter a tag in both sets or a tag not
\* beginning with #, for the scope filter a value outside the four
\* visibilities; every other configuration constructs.
C13_FilterValidation ==
    /\ probe.op = "MastodonFilter.__init__" =>
          LET include == probe.args[1]
              exclude == probe.args[2]
          IN  (probe.out # Constructed) <=>
                 \/ include \cap exclude # {}
                 \/ \E tag \in include \cup exclude : ~Hashed(tag)
    /\ probe.op = "TelegramFilter.__init__" =>
          ((probe.out # Constructed) <=> ~(probe.args[1] \subseteq Visibilities))

\* C13's case: two sets of well-formed tags that share a tag were refused
C13_Witness ==
    /\ probe.op = "MastodonFilter.__init__"
    /\ probe.args[1] = {"#mastodon", "#news"}
    /\ probe.args[2] = {"#news"}
    /\ probe.out = "ValueError: include and exclude tags overlap"

\* C14: with both directions disabled the construction of the Bridge fails
\* with an error: run is not reached, no stream and no handler is started and
\* no event is processed; with at most one direction disabled the
\* construction does not fail for this reason.
C14_BothDisabled ==
    LET both == /\ cfg.telegram_to_mastodon.disable
                /\ cfg.mastodon_to_telegram.disable
        error == "ValueError: Both telegram_to_mastodon and mastodon_to_telegram are disabled, nothing to do."
    IN  /\ both =>
            /\ phase \in {"new", error}
            /\ ~streaming
            /\ nUpdates = 0 /\ nStatuses = 0
            /\ inbox = <<>> /\ timeline = <<>>
            /\ sent = {} /\ statuses = {}
        /\ ~both => phase # error

\* C14's case: the construction with both directions disabled has failed
C14_Witness ==
    /\ cfg.telegram_to_mastodon.disable
    /\ cfg.mastodon_to_telegram.disable
    /\ phase = "ValueError: Both telegram_to_mastodon and mastodon_to_telegram are disabled, nothing to do."

\* where the i-th character of a text stands once every * _ [ and backquote
\* up to it has a character put before it
Place(text, i) == i + Cardinality({j \in 1..i : text[j] \in MetaChars})

\* C20: escape puts exactly one backslash immediately before every * _ [ and
\* backquote of its input and leaves every other character as it is and
\* where it is; the empty text gives the empty text.
C20_EscapeBackslashes ==
    probe.op = "escape" =>
        LET text == probe.args[1]
            out == probe.out
        IN  /\ Len(out) = Place(text, Len(text))
            /\ \A i \in 1..Len(text) :
                  /\ out[Place(text, i)] = text[i]
                  /\ text[i] \in MetaChars => out[Place(text, i) - 1] = Backslash
            /\ text = <<>> => out = <<>>

\* C20's case: a text with a backslash, an asterisk and a bracket was escaped
C20_Witness ==
    /\ probe.op = "escape"
    /\ probe.args[1] = <<Backslash, "*", "[">>
    /\ probe.out = <<Backslash, Backslash, "*", Backslash, "[">>

\* the name a forwarded message is attributed to: the user's, else the
\* chat's title, else the hidden sender's name, else None
FirstAvailable(message) ==
    LET names == <<message.forward_from,
                   IF message.forward_from_chat = <<>> THEN None
                   ELSE message.forward_from_chat[1].title,
                   message.forward_sender_name>>
        given == SelectSeq(names, LAMBDA name : name # None)
    IN  IF given = <<>> THEN None ELSE given[1]

\* the origin chat of a message has a link
OriginLinked(message) ==
    message.forward_from_chat # <<>> /\ message.forward_from_chat[1].link # None

\* C21: the footer of a Telegram message is, in this order, with
\* show_forward_from the line 'Forwarded from' the first available name (no
\* line without a name) and the deep link to the origin when the origin chat
\* has a link, then with add_link the link of the message when it has one;
\* without show_forward_from neither provenance line is there.
C21_MastodonFooterLines ==
    probe.op = "MastodonFooter.make_footer" =>
        LET add_link == probe.args[1]
            show_forward_from == probe.args[2]
            message == probe.args[3]
            named == show_forward_from /\ FirstAvailable(message) # None
            origin == show_forward_from /\ OriginLinked(message)
            linked == add_link /\ message.link # <<>>
            b(x) == IF x THEN 1 ELSE 0
            out == probe.out
        IN  /\ Len(out) = b(named) + b(origin) + b(linked)
            /\ named => out[1] = <<"Forwarded from ", FirstAvailable(message)>>
            /\ origin => out[b(named) + 1] =
                            <<message.forward_from_chat[1].link, "/",
                              message.forward_from_message_id>>
            /\ linked => out[Len(out)] = message.link

\* C21's case: a footer of three lines, for a message forwarded from a chat
\* with a link that carries a hidden sender's name as well
C21_Witness ==
    /\ probe.op = "MastodonFooter.make_footer"
    /\ probe.args[3].forward_from = None
    /\ probe.args[3].forward_sender_name = "bob"
    /\ probe.out = << <<"Forwarded from ", "news">>,
                      <<"https://t.me/news", "/", "7">>,
                      <<"https://t.me/c/1/", "1">> >>

\* C22: the footer of a Mastodon status is the url of the status if and only
\* if add_link is set, then one line with all the tags joined by single
\* spaces if and only if there are tags; it is empty without add_link and
\* without tags.
C22_TelegramFooterLines ==
    probe.op = "TelegramFooter.make_footer" =>
        LET add_link == probe.args[1]
            tags == probe.args[2]
            status == probe.args[3]
            out == probe.out
            first == IF add_link THEN 1 ELSE 0
        IN  /\ Len(out) = first + (IF tags # <<>> THEN 1 ELSE 0)
            /\ add_link => out[1] = status.url
            /\ tags # <<>> =>
                  /\ Len(out[first + 1]) = 2 * Len(tags) - 1
                  /\ \A i \in 1..Len(tags) : out[first + 1][2 * i - 1] = tags[i]
                  /\ \A i \in 1..(Len(tags) - 1) : out[first + 1][2 * i] = " "
            /\ (~add_link /\ tags = <<>>) => out = <<>>

\* C22's case: a footer with the url and a line of two tags
C22_Witness ==
    /\ probe.op = "TelegramFooter.make_footer"
    /\ probe.args[1]
    /\ Len(probe.args[2]) = 2
    /\ Len(probe.out) = 2

\* C27: with mastodon_to_telegram.disable no stream is started and no status
\* goes to Telegram; with telegram_to_mastodon.disable no channel post is
\* handled and none is posted to Mastodon; after a dry run neither the stream
\* nor the handler is there.  (That the other direction still forwards is
\* shown by reaching C27_Witness and C27_OtherWay.)
C27_DirectionsDisabled ==
    /\ cfg.mastodon_to_telegram.disable =>
          ~streaming /\ timeline = <<>> /\ \A c \in sent : c.ref[1] # "mastodon"
    /\ cfg.telegram_to_mastodon.disable =>
          inbox = <<>> /\ statuses = {} /\ \A c \in sent : c.ref[1] # "telegram"
    /\ phase = "dry run" =>
          ~streaming /\ inbox = <<>> /\ timeline = <<>> /\ sent = {} /\ statuses = {}

\* C27's case: with the Mastodon side disabled a channel post was posted
C27_Witness ==
    /\ cfg.mastodon_to_telegram.disable
    /\ phase = "running"
    /\ statuses # {}

\* with the Telegram side disabled a status went to the channel
C27_OtherWay ==
    /\ cfg.telegram_to_mastodon.disable
    /\ phase = "running"
    /\ \E c \in sent : c.ref[1] = "mastodon" /\ c.ok
          /\ c.chat_id = cfg.mastodon_to_telegram.channel_chat_id

---------------------------------------------------------------------------
(* Media groups *)

\* the messages that opened a buffer: run_once was called for them
Firsts == {j.data.message[1].message_id : j \in jobs} \cup {f.first : f \in fired}

\* the channel posts of the buffer opened by message b, in arrival order: the
\* posts of b's media group from b up to the next post that opened a buffer
\* for that group
Window(b) ==
    LET mine(i) == /\ i >= b
                   /\ inbox[i].chat_id = cfg.telegram_to_mastodon.channel_chat_id
                   /\ inbox[i].type \in {"photo", "video"}
                   /\ inbox[i].media_group_id = inbox[b].media_group_id
                   /\ ~\E b2 \in Firsts :
                         /\ b < b2 /\ b2 <= i
                         /\ inbox[b2].media_group_id = inbox[b].media_group_id
    IN  SelectSeq([i \in 1..Len(inbox) |-> i], mine)

BufferRef(b) == <<"telegram", b>>

\* the success messages among the calls of one event
Acks(ref) ==
    {c \in Of(sent, ref) :
        Within(<<"*", "Successfully forward message to mastodon.", "*">>, c.text)}

\* the error reports among the calls of one event
Reports(ref) == {c \in Of(sent, ref) : Len(c.text) > 0 /\ c.text[1] = CodeFence}

\* C1: for 1 <= N <= 4 channel posts of one media group arriving within the
\* flush window, with the first caption passing the tag filter, exactly one
\* status is posted for the group, it carries the attachments of all N posts
\* in arrival order, it is posted only after the flush delay has elapsed from
\* the first post, and no scheduled job of that buffer exists afterwards.
C1_MediaAggregation ==
    \A f \in fired :
        LET w == Window(f.first)
            posted == Of(statuses, BufferRef(f.first))
        IN  (mastodon_filter(inbox[f.first].caption) /\ Len(w) <= MaxMedia) =>
                /\ Cardinality(posted) <= 1
                /\ \A st \in posted :
                      /\ st.media_ids = w
                      /\ st.waited >= FlushDelay
                      /\ ~\E j \in jobs : j.data.message[1].message_id = f.first
                /\ ( /\ ~\E t \in tasks : t.messages[1].message_id = f.first
                     /\ ~\E r \in raised : r.ref = BufferRef(f.first) )
                   => Cardinality(posted) = 1

\* C2: in every interleaving of the handler and the flush a buffer is flushed
\* at most once, and no message is appended to a buffer after the scheduler
\* took it: every message appended to a buffer that was flushed was in it at
\* the flush.
C2_FlushedAtMostOnce ==
    /\ \A f \in fired : f.k = 1
    /\ \A b \in Firsts : Cardinality(Of(statuses, BufferRef(b))) <= 1
    /\ \A a \in appends : \A f \in fired :
          f.first = a[1] => \E i \in 1..Len(f.ids) : f.ids[i] = a[2]

\* C2's case: a buffer that took a second message was flushed, and a later
\* post of the same group has opened a new buffer
C2_Witness ==
    \E f \in fired : \E a \in appends : \E j \in jobs :
        /\ a[1] = f.first
        /\ j.name = f.name
        /\ j.data.message[1].message_id > a[2]

\* C3: a buffer of more than 4 posts at flush time is not posted: no status,
\* no download or upload, exactly one warning, no success message; a buffer
\* of exactly 4 posts is posted with its 4 attachments.
C3_TooManyMedias ==
    \A f \in fired :
        LET w == Window(f.first)
            ref == BufferRef(f.first)
        IN  /\ Len(w) > MaxMedia =>
                /\ Of(statuses, ref) = {}
                /\ \A i \in 1..Len(w) : w[i] \notin fetched \cup uploaded
                /\ Cardinality(Of(warnings, ref)) = 1
                /\ Acks(ref) = {}
            /\ Len(w) = MaxMedia =>
                \A st \in Of(statuses, ref) : Len(st.media_ids) = MaxMedia

\* C4: the flush of a media group is scheduled once, 5 time units after the
\* first post of the group opened the buffer; later posts of the group are
\* appended to the buffer and never reschedule, cancel or add a flush.
C4_ScheduledOnce ==
    /\ \A j \in jobs :
          /\ j.left + j.waited = FlushDelay
          /\ Ids(j.data.message) = Window(j.data.message[1].message_id)
    /\ \A j1, j2 \in jobs : j1.name = j2.name => j1 = j2
    /\ \A f \in fired : f.waited = FlushDelay /\ f.k = 1 /\ f.ids = Window(f.first)

\* C5: two media groups whose posts arrive interleaved are independent: each
\* buffer is flushed once after its own delay, the status of a group carries
\* only attachments of posts of that group and the caption and footer of its
\* own first post, and no post of a group is lost to the other group's flush.
C5_GroupsIndependent ==
    /\ \A st \in statuses :
          st.name # NoGroup =>
            /\ \A i \in 1..Len(st.media_ids) :
                  inbox[st.media_ids[i]].media_group_id = st.name
            /\ st.status = inbox[st.ref[2]].caption \o <<"\n", "\n">>
                           \o mastodon_footer(inbox[st.ref[2]])
            /\ inbox[st.ref[2]].media_group_id = st.name
            /\ st.waited = FlushDelay
    /\ \A j \in jobs :
          /\ j.left + j.waited = FlushDelay
          /\ \A i \in 1..Len(j.data.message) : j.data.message[i].media_group_id = j.name
    /\ \A f \in fired : f.waited = FlushDelay /\ f.k = 1
    /\ \A i \in 1..Len(inbox) :
          \/ \E j \in jobs : \E n \in 1..Len(j.data.message) :
                j.data.message[n].message_id = i /\ j.name = inbox[i].media_group_id
          \/ \E f \in fired : \E n \in 1..Len(f.ids) :
                f.ids[n] = i /\ f.name = inbox[i].media_group_id
          \/ \E r \in raised : r.ref = <<"telegram", i>> /\ r.exc = "AttributeError"

\* C5's case: both groups were posted, the first with two attachments that
\* arrived around a post of the second
C5_Witness ==
    \E s1, s2 \in statuses :
        /\ s1.name = "G1" /\ s2.name = "G2"
        /\ s1.media_ids = <<1, 3>>
        /\ s2.media_ids = <<2>>

---------------------------------------------------------------------------
(* Dropped and skipped posts *)

\* nothing was posted, uploaded, acknowledged or reported for message i
Silent(i) ==
    /\ Of(statuses, <<"telegram", i>>) = {}
    /\ i \notin uploaded
    /\ Acks(<<"telegram", i>>) = {}
    /\ Reports(<<"telegram", i>>) = {}

\* C15: a channel post whose text or first caption the tag filter rejects is
\* dropped silently, be it a text, a single photo or video, or a media group:
\* no status, no upload, no success message and no error report.
C15_RejectedDropped ==
    /\ \A i \in 1..Len(inbox) :
          ( /\ inbox[i].chat_id = cfg.telegram_to_mastodon.channel_chat_id
            /\ \/ inbox[i].type = "text" /\ ~mastodon_filter(inbox[i].text)
               \/ /\ inbox[i].type \in {"photo", "video"}
                  /\ inbox[i].media_group_id = NoGroup
                  /\ ~mastodon_filter(inbox[i].caption) )
          => Silent(i)
    /\ \A b \in Firsts :
          ~mastodon_filter(inbox[b].caption) =>
              \A k \in 1..Len(Window(b)) : Silent(Window(b)[k])

\* C16: a post of the configured channel that is neither text, photo nor video
\* is skipped: no status, no buffer, no download, and no call to any chat,
\* neither error report nor success message.
C16_UnsupportedSkipped ==
    \A i \in 1..Len(inbox) :
        ( /\ inbox[i].chat_id = cfg.telegram_to_mastodon.channel_chat_id
          /\ inbox[i].type \notin {"text", "photo", "video"} )
        => /\ Of(statuses, <<"telegram", i>>) = {}
           /\ Of(sent, <<"telegram", i>>) = {}
           /\ Of(raised, <<"telegram", i>>) = {}
           /\ i \notin fetched \cup uploaded
           /\ \A j \in jobs : \A n \in 1..Len(j.data.message) :
                 j.data.message[n].message_id # i
           /\ \A f \in fired : \A n \in 1..Len(f.ids) : f.ids[n] # i
           /\ \A t \in tasks : \A n \in 1..Len(t.messages) :
                 t.messages[n].message_id # i

\* C16's case: a sticker came in on the channel after a post that was
\* forwarded
C16_Witness ==
    \E i \in 1..Len(inbox) :
        /\ inbox[i].chat_id = cfg.telegram_to_mastodon.channel_chat_id
        /\ inbox[i].type = "sticker"
        /\ i > 1
        /\ Of(statuses, <<"telegram", i - 1>>) # {}

---------------------------------------------------------------------------
(* Reblogs *)

\* the n-th status of the stream is a reblog the first test of the handler
\* lets through, and no call made for it failed
AcceptedReblog(n) ==
    /\ timeline[n].reblog # <<>>
    /\ timeline[n].account.username = MastodonUsername
    /\ timeline[n].application # MastodonAppName
    /\ timeline[n].in_reply_to_id = None
    /\ timeline[n].visibility \in cfg.mastodon_to_telegram.filter.scope
    /\ \A c \in Of(sent, <<"mastodon", n>>) : c.ok

\* the calls made for the n-th status are one text message to the channel
\* that is the footer of the original and nothing else
LinkOnly(n) ==
    /\ Cardinality(Of(sent, <<"mastodon", n>>)) = 1
    /\ \A c \in Of(sent, <<"mastodon", n>>) :
          /\ c.method = "send_message"
          /\ c.chat_id = cfg.mastodon_to_telegram.channel_chat_id
          /\ c.media = <<>>
          /\ c.text = escape(telegram_footer(timeline[n].reblog[1]))

\* the calls made for the n-th status are one call to the channel with the
\* content, spoiler text, photos and videos and footer of the original
InFull(n) ==
    LET original == timeline[n].reblog[1]
        text == (IF original.spoiler_text = <<>> THEN <<>>
                 ELSE <<"*">> \o original.spoiler_text \o <<"*", "\n", "\n">>)
                \o escape(original.content) \o <<"\n">>
                \o escape(telegram_footer(original))
        shown == SelectSeq(original.media_attachments,
                           LAMBDA item : item.type \in {"image", "video"})
    IN  /\ Cardinality(Of(sent, <<"mastodon", n>>)) = 1
        /\ \A c \in Of(sent, <<"mastodon", n>>) :
              /\ c.chat_id = cfg.mastodon_to_telegram.channel_chat_id
              /\ IF original.media_attachments = <<>>
                 THEN c.method = "send_message" /\ c.text = text /\ c.media = <<>>
                 ELSE /\ c.method = "send_media_group"
                      /\ Len(c.media) = Len(shown)
                      /\ \A i \in 1..Len(shown) : c.media[i].url = shown[i].url
                      /\ c.media[1].caption = text

\* C17 as stated: an accepted reblog is forwarded as its original in full
\* when forward_reblog_link_only is false, and as exactly one text message
\* that is the footer of the original when it is true.
C17_ReblogFullOrLink ==
    \A n \in 1..Len(timeline) :
        AcceptedReblog(n) =>
            IF cfg.mastodon_to_telegram.forward_reblog_link_only
            THEN LinkOnly(n) ELSE InFull(n)

\* the original of the n-th status has attachments, none of them an image or
\* a video
NothingToShow(n) ==
    /\ timeline[n].reblog[1].media_attachments # <<>>
    /\ \A i \in 1..Len(timeline[n].reblog[1].media_attachments) :
          timeline[n].reblog[1].media_attachments[i].type \notin {"image", "video"}

\* C17 amended: with forward_reblog_link_only true the one message with the
\* footer of the original is sent when the original is public, and nothing is
\* sent but a warning logged when it is not; with it false the original is
\* forwarded in full, unless its attachments are all of another type than
\* image and video: then the IndexError is reported and nothing else sent.
C17_ReblogFullOrPublicLink ==
    \A n \in 1..Len(timeline) :
        AcceptedReblog(n) =>
            IF ~cfg.mastodon_to_telegram.forward_reblog_link_only
            THEN IF NothingToShow(n)
                 THEN /\ Cardinality(Of(sent, <<"mastodon", n>>)) = 1
                      /\ \A c \in Of(sent, <<"mastodon", n>>) :
                            c.text = <<CodeFence, "\n", "IndexError", "\n", CodeFence>>
                 ELSE InFull(n)
            ELSE IF timeline[n].reblog[1].visibility = "public" THEN LinkOnly(n)
            ELSE /\ Of(sent, <<"mastodon", n>>) = {}
                 /\ Cardinality(Of(warnings, <<"mastodon", n>>)) = 1

\* C17's case: a reblog of a status that is not public came in with
\* forward_reblog_link_only true
C17_Witness ==
    /\ cfg.mastodon_to_telegram.forward_reblog_link_only
    /\ \E n \in 1..Len(timeline) :
          AcceptedReblog(n) /\ timeline[n].reblog[1].visibility = "private"

---------------------------------------------------------------------------
(* Texts and footers *)

RECURSIVE Lines(_)
\* footer lines, each followed by a newline but the last
Lines(lines) ==
    IF lines = <<>> THEN <<>>
    ELSE IF Len(lines) = 1 THEN lines[1]
    ELSE lines[1] \o <<"\n">> \o Lines(Tail(lines))

\* the text or caption of the message a status was posted for
BodyOf(st) ==
    IF inbox[st.ref[2]].type = "text" THEN inbox[st.ref[2]].text
    ELSE inbox[st.ref[2]].caption

\* the footer lines of the message a status was posted for
FooterOf(st) ==
    Lines(MastodonMakeFooter(cfg.telegram_to_mastodon.footer, inbox[st.ref[2]]))

\* C18 as stated: the text of a status posted from Telegram is the message
\* text or first caption, a single newline, and the footer lines joined by
\* newlines.
C18_SingleNewlineFooter ==
    \A st \in statuses : st.status = BodyOf(st) \o <<"\n">> \o FooterOf(st)

\* C18 amended: the text of a status posted from Telegram is the message text
\* or first caption, two newlines, and the footer lines joined by newlines,
\* for text messages, single media and media groups alike.
C18_BlankLineFooter ==
    \A st \in statuses : st.status = BodyOf(st) \o <<"\n", "\n">> \o FooterOf(st)

\* C18's case: a text with a footer of two lines and a photo were posted
C18_Witness ==
    \E s1, s2 \in statuses :
        /\ inbox[s1.ref[2]].type = "text"
        /\ Len(MastodonMakeFooter(cfg.telegram_to_mastodon.footer, inbox[s1.ref[2]])) = 2
        /\ inbox[s2.ref[2]].type = "photo"

---------------------------------------------------------------------------
(* Failures, acknowledgments and filters *)

\* C6: when a stage of processing one event raises, in either direction or in
\* a scheduled flush, the exception does not leave the handler, and the
\* source of the event keeps being listened to.
C6_FailuresIsolated ==
    /\ \A r \in raised : ~\E e \in escapes : e.ref = r.ref
    /\ streaming

\* the calls that delivered a status of the stream to the channel
Forwards(n) ==
    {c \in Of(sent, <<"mastodon", n>>) :
        c.chat_id = cfg.mastodon_to_telegram.channel_chat_id /\ c.ok}

\* the one report of the exception r: the formatted exception in a code block,
\* sent to the admin chat of the direction
Reported(r) ==
    /\ Cardinality(Reports(r.ref)) = 1
    /\ \A c \in Reports(r.ref) :
          /\ c.method = "send_message"
          /\ c.chat_id = PmChatOf(r.origin)
          /\ c.text = <<CodeFence, "\n", r.exc, "\n", CodeFence>>

C8_NoReflection ==
    \A n \in 1..Len(timeline) :
        ( /\ timeline[n].account.username = MastodonUsername
          /\ timeline[n].application = MastodonAppName )
        => Of(sent, <<"mastodon", n>>) = {}

\* C8's case: a public status of the bridge's own account and application,
\* neither reply nor reblog, has come in
C8_Witness ==
    \E n \in 1..Len(timeline) :
        /\ timeline[n].account.username = MastodonUsername
        /\ timeline[n].application = MastodonAppName
        /\ timeline[n].visibility = "public"
        /\ timeline[n].in_reply_to_id = None
        /\ timeline[n].reblog = <<>>
        /\ timeline[n].media_attachments # <<>>

RECURSIVE Rendered(_)
\* what a Markdown reader shows of a text: the backslash before an escaped
\* character is dropped
Rendered(text) ==
    IF text = <<>> THEN <<>>
    ELSE IF Len(text) > 1 /\ text[1] = Backslash /\ text[2] \in MetaChars
    THEN <<text[2]>> \o Rendered(Tail(Tail(text)))
    ELSE <<Head(text)>> \o Rendered(Tail(text))

\* the text of a call to the channel: the message, or the first caption
TextOf(c) == IF c.method = "send_media_group" THEN c.media[1].caption ELSE c.text

\* C9: a status of the bridge's own account, neither reply nor reblog, with a
\* visibility in scope and an application that is null or not the bridge's,
\* is sent to the channel exactly once (no call to Telegram failing), and
\* with add_link the text shows the url of the status.
C9_OwnStatusForwardedOnce ==
    \A n \in 1..Len(timeline) :
        LET status == timeline[n]
            calls == {c \in Of(sent, <<"mastodon", n>>) :
                        c.chat_id = cfg.mastodon_to_telegram.channel_chat_id}
        IN  ( /\ status.account.username = MastodonUsername
              /\ status.in_reply_to_id = None
              /\ status.reblog = <<>>
              /\ status.visibility \in cfg.mastodon_to_telegram.filter.scope
              /\ status.application # MastodonAppName
              /\ \A c \in Of(sent, <<"mastodon", n>>) : c.ok )
            => /\ Cardinality(calls) = 1
               /\ cfg.mastodon_to_telegram.footer.add_link =>
                     \A c \in calls : Within(status.url, Rendered(TextOf(c)))

\* C10: a post of a chat other than the configured channel gets the notice as
\* a reply and nothing else: no status, no download or upload, no buffer
\* opened or appended to, no success message.
C10_WrongChatRejected ==
    \A i \in 1..Len(inbox) :
        inbox[i].chat_id # cfg.telegram_to_mastodon.channel_chat_id =>
            /\ Cardinality(Of(sent, <<"telegram", i>>)) = 1
            /\ \A c \in Of(sent, <<"telegram", i>>) :
                  /\ c.method = "reply_text"
                  /\ c.chat_id = inbox[i].chat_id
                  /\ c.reply_to = i
                  /\ c.text = <<"This bot is only for specific channel or chat.">>
            /\ Of(statuses, <<"telegram", i>>) = {}
            /\ i \notin fetched \cup uploaded
            /\ \A j \in jobs : \A n \in 1..Len(j.data.message) :
                  j.data.message[n].message_id # i
            /\ \A f \in fired : \A n \in 1..Len(f.ids) : f.ids[n] # i
            /\ \A a \in appends : a[2] # i
            /\ \A t \in tasks : \A n \in 1..Len(t.messages) :
                  t.messages[n].message_id # i

\* C10's case: a photo of another chat, carrying the media group id of a
\* buffer in flight, was answered with the notice
C10_Witness ==
    \E i \in 1..Len(inbox) : \E j \in jobs : \E c \in Of(sent, <<"telegram", i>>) :
        /\ inbox[i].chat_id # cfg.telegram_to_mastodon.channel_chat_id
        /\ j.name = inbox[i].media_group_id
        /\ c.ok


---------------------------------------------------------------------------
(* Failures of a flush *)

\* C23: when a download, an upload, the wait for readiness or the post fails
\* in the flush of a media group, one error report goes to the admin chat,
\* the buffer is gone from the job queue, no status is posted for the group,
\* and the flush is not run again.
C23_FlushFailureConsumed ==
    \A r \in raised :
        (r.origin = "job" /\ Acks(r.ref) = {}) =>
            /\ Reported(r)
            /\ Of(statuses, r.ref) = {}
            /\ ~\E j \in jobs : j.data.message[1].message_id = r.ref[2]
            /\ ~\E t \in tasks : Ref(t) = r.ref
            /\ \A f \in fired : f.first = r.ref[2] => f.k = 1

\* C23's case: the flush of a buffer of two posts failed before the status
\* was posted
C23_Witness ==
    \E r \in raised : \E f \in fired :
        /\ r.origin = "job"
        /\ Acks(r.ref) = {}
        /\ f.first = r.ref[2]
        /\ Len(f.ids) = 2

---------------------------------------------------------------------------
(* The wait for the media *)

\* a task that is in the wait is in none but the first five rounds, has slept
\* 1, 2, 4, 8, 16 after the rounds that went wrong, and sleeps only when some
\* media was ready in none of the rounds so far
WaitBounded ==
    \A t \in tasks :
        /\ t.round <= 5
        /\ t.slept = SubSeq(<<1, 2, 4, 8, 16>>, 1, t.round)
        /\ t.round > 0 => \E i \in 1..Len(t.media_ids) : i \notin t.ready

\* a TimeoutError ends a task that slept after its fifth round
TimeoutAfterFive ==
    \A r \in raised' \ raised :
        r.exc = "TimeoutError" =>
            \E t \in tasks \ tasks' : Ref(t) = r.ref /\ t.round = 5

\* nothing is done again for a message once its handling raised or posted
NothingRetried ==
    /\ \A r \in raised : ~\E t \in tasks : Ref(t) = r.ref
    /\ \A ref \in {st.ref : st \in statuses} :
          /\ Cardinality(Of(statuses, ref)) = 1
          /\ ~\E t \in tasks : Ref(t) = ref

\* C24: the wait for the media always ends: at most five rounds, sleeps of 1,
\* 2, 4, 8 and 16 after the rounds that left a media unready, the return as
\* soon as every media was ready in this or an earlier round, the
\* TimeoutError after the fifth such round; and nothing else is tried again.
C24_WaitTerminates ==
    /\ [](WaitBounded /\ NothingRetried)
    /\ [][TimeoutAfterFive]_vars
    /\ (tasks # {}) ~> (tasks = {})

\* C24's case: a media of a group of two was unready for five rounds
C24_Witness ==
    \E r \in raised : \E f \in fired :
        /\ r.exc = "TimeoutError"
        /\ f.first = r.ref[2]
        /\ Len(f.ids) = 2

---------------------------------------------------------------------------
(* One event of a source at a time *)

\* the channel posts whose handler has not returned
InTelegramHandler == {t.messages[1].message_id : t \in {x \in tasks : ~x.byJob}}

\* the statuses whose handler has not returned
InMastodonHandler == (nStatuses + 1)..Len(timeline)

\* at most one event of each source is being handled, and it is the last one
\* that came in
OneOfEachSource ==
    /\ Cardinality(InTelegramHandler) <= 1
    /\ \A i \in InTelegramHandler : i = Len(inbox)
    /\ Cardinality(InMastodonHandler) <= 1
    /\ \A c \in sent \cup raised :
          /\ c.ref[1] = "mastodon" => c.ref[2] <= nStatuses
          /\ (c.ref[1] = "telegram" /\ ~\E f \in fired : f.first = c.ref[2])
                => c.ref[2] <= Len(inbox)

\* an event comes in when no handler of its source is running
NextWhenDone ==
    /\ Len(inbox') > Len(inbox) => InTelegramHandler = {}
    /\ Len(timeline') > Len(timeline) => InMastodonHandler = {}

\* C25: the handling of a Mastodon status, and likewise of a Telegram update,
\* has returned or reported its error before the handling of the next event
\* of that source begins.  (That the handlers of the two sources overlap and
\* that a pending flush does not hold up the updates is shown by reaching
\* C25_Witness.)
C25_OneAtATime == [](OneOfEachSource) /\ [][NextWhenDone]_vars

\* C25's case: a status and a photo are being handled at the same time, the
\* photo having come in while the flush of a media group was pending
C25_Witness ==
    /\ InMastodonHandler # {}
    /\ \E i \in InTelegramHandler : \E j \in jobs :
          /\ j.left > 0
          /\ j.data.message[1].message_id < i

---------------------------------------------------------------------------
(* The footer of a message to the channel *)

\* the calls to the channel that carry the n-th status of the stream in full
SentInFull(n) ==
    {c \in Of(sent, <<"mastodon", n>>) :
        /\ c.chat_id = cfg.mastodon_to_telegram.channel_chat_id
        /\ c.method \in {"send_message", "send_media_group"}
        /\ ~(timeline[n].reblog # <<>>
              /\ cfg.mastodon_to_telegram.forward_reblog_link_only)}

\* the transformed body of a status: its content, the spoiler text in bold
\* and a blank line before it when there is one
BodyText(source) ==
    (IF source.spoiler_text = <<>> THEN <<>>
     ELSE <<"*">> \o source.spoiler_text \o <<"*", "\n", "\n">>)
    \o escape(source.content)

\* C19 as stated: a separator stands between the transformed body and the
\* footer only if the footer is not empty, and it is then a blank line; with
\* an empty footer the text sent is the body with nothing appended.
C19_FooterAfterBlankLineIfAny ==
    \A n \in 1..Len(timeline) : \A c \in SentInFull(n) :
        LET source == Resolved(timeline[n])
            footer == escape(telegram_footer(source))
        IN  TextOf(c) = BodyText(source)
                        \o (IF footer = <<>> THEN <<>> ELSE <<"\n", "\n">> \o footer)

\* C19 amended: one newline always stands between the transformed body and
\* the escaped footer; with an empty footer the text sent is the body and one
\* newline.
C19_FooterAfterNewline ==
    \A n \in 1..Len(timeline) : \A c \in SentInFull(n) :
        LET source == Resolved(timeline[n])
        IN  TextOf(c) = BodyText(source) \o <<"\n">>
                        \o escape(telegram_footer(source))

\* C19's case: a status went to the channel in full with an empty footer
C19_Witness ==
    /\ ~cfg.mastodon_to_telegram.footer.add_link
    /\ cfg.mastodon_to_telegram.footer.tags = <<>>
    /\ \E n \in 1..Len(timeline) : \E c \in SentInFull(n) : c.ok

\* text begins with prefix
BeginsWith(text, prefix) ==
    Len(text) >= Len(prefix) /\ SubSeq(text, 1, Len(prefix)) = prefix

\* C26: the text sent for a status with spoiler text begins with the spoiler
\* text between bold markers on a line of its own, a blank line and the
\* transformed body; without spoiler text it begins with the transformed body.
C26_SpoilerFirst ==
    \A n \in 1..Len(timeline) : \A c \in SentInFull(n) :
        LET source == Resolved(timeline[n])
        IN  IF source.spoiler_text # <<>>
            THEN BeginsWith(TextOf(c), <<"*">> \o source.spoiler_text
                                       \o <<"*", "\n", "\n">> \o escape(source.content))
            ELSE BeginsWith(TextOf(c), escape(source.content))

\* C26's case: a status with spoiler text went to the channel
C26_Witness ==
    \E n \in 1..Len(timeline) : \E c \in SentInFull(n) :
        /\ c.ok
        /\ Resolved(timeline[n]).spoiler_text = <<"cw">>

---------------------------------------------------------------------------
(* The text of a media group *)

\* the channel posts that belong to a media group
GroupPosts ==
    {i \in 1..Len(inbox) :
        /\ inbox[i].chat_id = cfg.telegram_to_mastodon.channel_chat_id
        /\ inbox[i].type \in {"photo", "video"}
        /\ inbox[i].media_group_id # NoGroup}

\* C28: the status of a media group has the caption of the first post and the
\* footer of the first post, and shows neither the link nor a differing
\* caption of a later post; every post of a group that finds no buffer opens
\* one whatever its caption, and a buffer is flushed after the whole window,
\* where a rejected caption leaves it without download and without status.
C28_FirstPostOnly ==
    /\ \A f \in fired : \A st \in Of(statuses, BufferRef(f.first)) :
          LET first == inbox[f.first]
              lines == MastodonMakeFooter(cfg.telegram_to_mastodon.footer, first)
          IN  /\ st.status = first.caption \o <<"\n", "\n">> \o Lines(lines)
              /\ \A i \in 2..Len(f.ids) :
                    /\ ~Within(inbox[f.ids[i]].link, st.status)
                    /\ inbox[f.ids[i]].caption # first.caption
                          => ~BeginsWith(st.status, inbox[f.ids[i]].caption \o <<"\n">>)
    /\ \A i \in GroupPosts : \E b \in Firsts : b <= i /\ inbox[b].media_group_id = inbox[i].media_group_id
    /\ \A f \in fired :
          /\ f.waited = 5
          /\ ~mastodon_filter(inbox[f.first].caption) =>
                /\ Of(statuses, BufferRef(f.first)) = {}
                /\ \A i \in 1..Len(f.ids) : f.ids[i] \notin fetched

\* C28's case: a status was posted for a buffer whose second post has another
\* caption than the first
C28_Witness ==
    \E f \in fired : \E st \in Of(statuses, BufferRef(f.first)) :
        /\ Len(f.ids) = 2
        /\ inbox[f.ids[2]].caption # inbox[f.first].caption

\* a buffer with a caption the filter rejects was held for the whole window
C28_RejectedHeld ==
    \E f \in fired : ~mastodon_filter(inbox[f.first].caption) /\ f.waited = 5

---------------------------------------------------------------------------
(* Statuses of other accounts *)

\* C30: with forward_reblog_link_only false the account, the application and
\* the scope filter are tested on the reblog and not on its original: an
\* original that is a reply or has a visibility out of scope is forwarded in
\* full whenever the reblog is accepted.
C30_OriginalNotFiltered ==
    \A n \in 1..nStatuses :
        LET original == timeline[n].reblog[1]
        IN  ( /\ AcceptedReblog(n)
              /\ ~cfg.mastodon_to_telegram.forward_reblog_link_only
              /\ \/ original.in_reply_to_id # None
                 \/ original.visibility \notin cfg.mastodon_to_telegram.filter.scope )
            => InFull(n)

\* the same for the originals without attachments or with an image or video
C30_ShownOriginalNotFiltered ==
    \A n \in 1..nStatuses :
        LET original == timeline[n].reblog[1]
        IN  ( /\ AcceptedReblog(n)
              /\ ~cfg.mastodon_to_telegram.forward_reblog_link_only
              /\ ~NothingToShow(n)
              /\ \/ original.in_reply_to_id # None
                 \/ original.visibility \notin cfg.mastodon_to_telegram.filter.scope )
            => InFull(n)

\* C29: for a status of the stream whose account is not the bridge's own,
\* whatever its application, visibility, reply target and reblog, nothing is
\* sent to Telegram.
C29_OtherAccountsStay ==
    \A n \in 1..Len(timeline) :
        timeline[n].account.username # "bridge" => Of(sent, <<"mastodon", n>>) = {}

\* C29's case: a public status of another account, no reply, posted from
\* another application, came in
C29_Witness ==
    \E n \in 1..nStatuses :
        /\ timeline[n].account.username = "someone"
        /\ timeline[n].application = "Web"
        /\ timeline[n].visibility = "public"
        /\ timeline[n].in_reply_to_id = None

---------------------------------------------------------------------------
(* Reblogs of statuses that are not public *)

\* C31: with forward_reblog_link_only true, for an accepted reblog of a
\* status whose visibility is not public no message goes to Telegram, neither
\* to the channel nor to the admin chat, and no exception is reported.
C31_PrivateReblogSilent ==
    cfg.mastodon_to_telegram.forward_reblog_link_only =>
        \A n \in 1..nStatuses :
            ( /\ timeline[n].reblog # <<>>
              /\ timeline[n].account.username = "bridge"
              /\ timeline[n].application # "tg-bridge"
              /\ timeline[n].in_reply_to_id = None
              /\ timeline[n].visibility \in cfg.mastodon_to_telegram.filter.scope
              /\ timeline[n].reblog[1].visibility # "public" )
            => /\ Of(sent, <<"mastodon", n>>) = {}
               /\ Of(raised, <<"mastodon", n>>) = {}
               /\ Of(escapes, <<"mastodon", n>>) = {}

\* C31's case: the bridge's account reblogged a private status from the web,
\* the reblog being unlisted, and the handler has logged its warning
C31_Witness ==
    /\ cfg.mastodon_to_telegram.forward_reblog_link_only
    /\ \E n \in 1..nStatuses :
          /\ timeline[n].reblog # <<>>
          /\ timeline[n].reblog[1].visibility = "private"
          /\ timeline[n].visibility = "unlisted"
          /\ Of(warnings, <<"mastodon", n>>) # {}
          /\ sent = {}

---------------------------------------------------------------------------
(* The media of a status *)

\* the messages _send_media_to_mastodon was called with for the status st:
\* the buffer of the flush, or the one post of the handler
MessageSet(st) ==
    IF st.name = NoGroup THEN {<<st.ref[2]>>}
    ELSE {f.ids : f \in {x \in fired : x.first = st.ref[2]}}

\* a failure before status_post: an upload that failed or a wait that timed out
FailedBeforePost(r) ==
    \/ r.exc = "TimeoutError"
    \/ r.exc = "NetworkError" /\ Acks(r.ref) = {}

\* C32: a status with media is posted only after every message of the set it
\* was called with was downloaded, uploaded and seen ready: its media ids are
\* one per photo or video of that set, in arrival order; when an upload fails
\* or the wait times out there is no status, no success message, and one
\* error report to the admin chat.
C32_PostedAfterAllReady ==
    /\ \A st \in statuses :
          inbox[st.ref[2]].type \in {"photo", "video"} =>
              /\ MessageSet(st) = {st.media_ids}
              /\ \A i \in 1..Len(st.media_ids) :
                    /\ inbox[st.media_ids[i]].type \in {"photo", "video"}
                    /\ st.media_ids[i] \in fetched \cap uploaded \cap observed
                    /\ \A k \in 1..Len(st.media_ids) : i < k => st.media_ids[i] < st.media_ids[k]
    /\ \A r \in raised :
          FailedBeforePost(r) =>
              /\ Of(statuses, r.ref) = {}
              /\ Acks(r.ref) = {}
              /\ Reported(r)
              /\ PmChatOf(r.origin) = PmChatId

\* C32's case: the flush of a buffer of two photos has posted its status
C32_Witness ==
    \E st \in statuses : \E f \in fired :
        /\ f.first = st.ref[2]
        /\ Len(f.ids) = 2
        /\ Len(st.media_ids) = 2
        /\ {st.media_ids[1], st.media_ids[2]} \subseteq observed

\* the wait of a group timed out after its second photo was uploaded
C32_TimedOut ==
    \E r \in raised : r.exc = "TimeoutError" /\ Cardinality(uploaded) = 2

---------------------------------------------------------------------------
(* Posts of a group after its flush *)

\* the step handles a photo or video of a media group whose last job has run
LateArrival ==
    LET m == inbox'[Len(inbox')]
    IN  /\ nUpdates' = nUpdates + 1
        /\ FromChannel(m)
        /\ effective_message_type(m) \in {"photo", "video"}
        /\ m.media_group_id # NoGroup
        /\ \E f \in fired : f.name = m.media_group_id
        /\ ~\E j \in jobs : j.name = m.media_group_id

\* the late post opens a buffer of its own, with the footer made from it and
\* the whole delay to run, and touches neither the running flushes nor their
\* statuses
OpensNewBuffer ==
    LET m == inbox'[Len(inbox')]
    IN  /\ jobs' = jobs \cup {[name |-> m.media_group_id,
                                data |-> [message |-> <<m>>,
                                          footer |-> mastodon_footer(m)],
                                left |-> 5, waited |-> 0]}
        /\ tasks' = tasks
        /\ fired' = fired
        /\ statuses' = statuses
        /\ raised' = raised
        /\ sent' = sent

\* the flush f is over and had a buffer that is forwarded
FlushedClean(f) ==
    /\ mastodon_filter(inbox[f.first].caption)
    /\ Len(f.ids) <= MaxMedia
    /\ ~\E t \in tasks : Ref(t) = BufferRef(f.first)
    /\ Of(raised, BufferRef(f.first)) = {}

\* two flushes of one group share no post, the status of the first has none of
\* the posts that came after it ran, and each flush that went through has a
\* status of its own with the footer of its own first post
StraddlingGroups ==
    /\ \A f1 \in fired : \A f2 \in fired :
          (f1.name = f2.name /\ f1.first < f2.first) =>
              /\ \A i \in 1..Len(f1.ids) : f1.ids[i] < f2.first
              /\ \A st \in Of(statuses, BufferRef(f1.first)) :
                    \A i \in 1..Len(st.media_ids) : st.media_ids[i] < f2.first
              /\ (FlushedClean(f1) /\ FlushedClean(f2)) =>
                    Cardinality({st \in statuses : st.name = f1.name}) >= 2
    /\ \A f \in fired :
          /\ f.waited = 5
          /\ FlushedClean(f) =>
                /\ Cardinality(Of(statuses, BufferRef(f.first))) = 1
                /\ \A st \in Of(statuses, BufferRef(f.first)) :
                      /\ st.media_ids = f.ids
                      /\ st.status = inbox[f.first].caption \o <<"\n", "\n">>
                            \o Lines(MastodonMakeFooter(cfg.telegram_to_mastodon.footer,
                                                        inbox[f.first]))

\* every post of a media group is in a buffer, or its handler raised and
\* issued a report
NoneSilentlyLost ==
    \A i \in GroupPosts :
        \/ \E j \in jobs : \E k \in 1..Len(j.data.message) :
              j.data.message[k].message_id = i
        \/ \E f \in fired : \E k \in 1..Len(f.ids) : f.ids[k] = i
        \/ Of(raised, <<"telegram", i>>) # {} /\ Reports(<<"telegram", i>>) # {}

\* C33: a photo or video of group G that arrives after the job of G has run,
\* be that flush still downloading or uploading, is not added to the status
\* of that flush: it opens a new buffer for G with its own footer and its own
\* delay of 5, so that a group arriving across the window gives more than one
\* status for G, and no post that arrived is lost silently.
C33_LateArrivalNewBuffer ==
    /\ [][LateArrival => OpensNewBuffer]_vars
    /\ [](StraddlingGroups /\ NoneSilentlyLost)

\* C33's case: a group has two statuses, of two flushes
C33_Witness ==
    \E st1 \in statuses : \E st2 \in statuses :
        /\ st1.name = st2.name
        /\ st1.name # NoGroup
        /\ st1.ref[2] < st2.ref[2]

\* a buffer of a group is waiting while an earlier flush of that group is
\* still downloading or uploading
C33_WhileUploading ==
    \E t \in tasks : \E j \in jobs :
        /\ t.byJob
        /\ t.name = j.name
        /\ t.round = 0

---------------------------------------------------------------------------
(* The attachments of a status *)

\* the n-th status was handled and is forwarded with its text: it passes the
\* test of the handler and is no reblog sent as a link
ForwardedInFull(n) ==
    /\ timeline[n].account.username = MastodonUsername
    /\ timeline[n].application # MastodonAppName
    /\ timeline[n].in_reply_to_id = None
    /\ timeline[n].visibility \in cfg.mastodon_to_telegram.filter.scope
    /\ ~(timeline[n].reblog # <<>> /\ cfg.mastodon_to_telegram.forward_reblog_link_only)

\* the status whose text and attachments are sent for the n-th status
SourceOf(n) == IF timeline[n].reblog # <<>> THEN timeline[n].reblog[1] ELSE timeline[n]

\* the calls to the channel made for the n-th status, by method
ToChannel(n, method) ==
    {c \in Of(sent, <<"mastodon", n>>) :
        c.chat_id = cfg.mastodon_to_telegram.channel_chat_id /\ c.method = method}

\* the item of a media group for an attachment
ItemFor(attachment) ==
    IF attachment.type = "image" THEN "InputMediaPhoto" ELSE "InputMediaVideo"

\* C34: a forwarded status with attachments gives exactly one send_media_group
\* to the channel and no text message: one item per image or video in the
\* order of the status, nothing for another type, the text as caption of the
\* first item only; without any image or video nothing goes to the channel
\* and one error report goes to the admin chat.  A status without
\* attachments gives exactly one text message, with the link preview off.
C34_MediaGroupOrText ==
    \A n \in 1..nStatuses :
        LET source == SourceOf(n)
            shown == SelectSeq(source.media_attachments,
                               LAMBDA item : item.type \in {"image", "video"})
            groups == ToChannel(n, "send_media_group")
            texts == ToChannel(n, "send_message")
            text == BodyText(source) \o <<"\n">> \o escape(telegram_footer(source))
        IN  ForwardedInFull(n) =>
              IF Len(source.media_attachments) > 0
              THEN /\ texts = {}
                   /\ IF shown # <<>>
                      THEN /\ Cardinality(groups) = 1
                           /\ \A c \in groups :
                                 /\ c.text = <<>>
                                 /\ Len(c.media) = Len(shown)
                                 /\ \A i \in 1..Len(shown) :
                                       /\ c.media[i].url = shown[i].url
                                       /\ c.media[i].media = ItemFor(shown[i])
                                       /\ c.media[i].caption = IF i = 1 THEN text ELSE <<>>
                      ELSE /\ groups = {}
                           /\ Cardinality(Of(sent, <<"mastodon", n>>)) = 1
                           /\ \A c \in Of(sent, <<"mastodon", n>>) :
                                 /\ c.method = "send_message"
                                 /\ c.chat_id = cfg.mastodon_to_telegram.pm_chat_id
                                 /\ c.chat_id # cfg.mastodon_to_telegram.channel_chat_id
                                 /\ c.text = <<CodeFence, "\n", "IndexError", "\n", CodeFence>>
              ELSE /\ groups = {}
                   /\ Cardinality(texts) = 1
                   /\ \A c \in texts :
                         /\ c.disable_web_page_preview
                         /\ c.text = text
                         /\ c.media = <<>>

\* C34's case: a status with an image, an audio and a video was sent as a
\* media group of two items
C34_Witness ==
    \E n \in 1..nStatuses : \E c \in ToChannel(n, "send_media_group") :
        /\ ForwardedInFull(n)
        /\ Len(SourceOf(n).media_attachments) = 3
        /\ Len(c.media) = 2

\* a status whose only attachment is an audio was handled
C34_NothingToShow ==
    \E n \in 1..nStatuses :
        /\ ForwardedInFull(n)
        /\ SourceOf(n).media_attachments = <<Audio>>
        /\ Reports(<<"mastodon", n>>) # {}

\* a status without attachments was sent as a text message
C34_TextOnly ==
    \E n \in 1..nStatuses :
        /\ ForwardedInFull(n)
        /\ SourceOf(n).media_attachments = <<>>
        /\ ToChannel(n, "send_message") # {}

===========================================================================
